---- MODULE Spec2Model ----
(***************************************************************************)
(* Verification model of greatliontech/ocifs: the union flattener          *)
(* (internal/store Image.Unify), the writable layer and the union          *)
(* filesystem nodes (internal/unionfs).                                    *)
(*                                                                         *)
(* Strings are sequences of one-character strings so that path cleaning,   *)
(* prefix tests and byte-wise ordering are computed, not assumed.          *)
(***************************************************************************)
EXTENDS Integers, Sequences, FiniteSets, TLC

\* ------------------------------------------------------------------------
\* Byte order of the characters that occur in the modelled names (ASCII).
\* ------------------------------------------------------------------------
Ord == [c \in {".", "/", "f", "h", "o", "p", "q", "w", "x"} |->
          CASE c = "." -> 46 [] c = "/" -> 47 [] c = "f" -> 102
            [] c = "h" -> 104 [] c = "o" -> 111 [] c = "p" -> 112
            [] c = "q" -> 113 [] c = "w" -> 119 [] c = "x" -> 120]

\* Go's string comparison a < b: lexicographic on bytes.
RECURSIVE StrLess(_, _)
StrLess(a, b) ==
  IF b = <<>> THEN FALSE
  ELSE IF a = <<>> THEN TRUE
  ELSE IF Ord[Head(a)] < Ord[Head(b)] THEN TRUE
  ELSE IF Ord[Head(a)] > Ord[Head(b)] THEN FALSE
  ELSE StrLess(Tail(a), Tail(b))

\* strings.HasPrefix
HasPrefix(s, p) == Len(p) <= Len(s) /\ SubSeq(s, 1, Len(p)) = p

\* strings.TrimPrefix
TrimPrefix(s, p) == IF HasPrefix(s, p) THEN SubSeq(s, Len(p) + 1, Len(s)) ELSE s

\* strings.Contains(s, "/")
ContainsSlash(s) == \E i \in 1..Len(s) : s[i] = "/"

\* index of the last "/" of s, 0 when there is none
LastSlash(s) ==
  IF ContainsSlash(s) THEN CHOOSE i \in 1..Len(s) :
        s[i] = "/" /\ \A j \in (i+1)..Len(s) : s[j] # "/"
  ELSE 0

\* strings.Split(s, "/")
RECURSIVE SplitSlash(_)
SplitSlash(s) ==
  IF ~ContainsSlash(s) THEN <<s>>
  ELSE LET i == LastSlash(s)
       IN Append(SplitSlash(SubSeq(s, 1, i - 1)), SubSeq(s, i + 1, Len(s)))

\* strings.Join(elems, "/")
RECURSIVE JoinSlash(_)
JoinSlash(elems) ==
  IF elems = <<>> THEN <<>>
  ELSE IF Len(elems) = 1 THEN elems[1]
  ELSE elems[1] \o <<"/">> \o JoinSlash(Tail(elems))

\* the component stack of Clean: "" and "." are dropped, ".." pops
RECURSIVE CleanStack(_, _, _)
CleanStack(comps, stack, rooted) ==
  IF comps = <<>> THEN stack
  ELSE LET c == Head(comps) rest == Tail(comps)
       IN IF c = <<>> \/ c = <<".">> THEN CleanStack(rest, stack, rooted)
          ELSE IF c = <<".", ".">> THEN
             IF stack # <<>> /\ stack[Len(stack)] # <<".", ".">>
               THEN CleanStack(rest, SubSeq(stack, 1, Len(stack) - 1), rooted)
             ELSE IF rooted THEN CleanStack(rest, stack, rooted)
             ELSE CleanStack(rest, Append(stack, c), rooted)
          ELSE CleanStack(rest, Append(stack, c), rooted)

\* path.Clean / filepath.Clean
Clean(p) ==
  IF p = <<>> THEN <<".">>
  ELSE LET rooted == p[1] = "/"
           stack  == CleanStack(SplitSlash(p), <<>>, rooted)
       IN IF rooted THEN <<"/">> \o JoinSlash(stack)
          ELSE IF stack = <<>> THEN <<".">>
          ELSE JoinSlash(stack)

\* s without its trailing slashes
RECURSIVE StripTrailingSlashes(_)
StripTrailingSlashes(s) ==
  IF s # <<>> /\ s[Len(s)] = "/" THEN StripTrailingSlashes(SubSeq(s, 1, Len(s) - 1))
  ELSE s

\* path.Base / filepath.Base
Base(p) ==
  IF p = <<>> THEN <<".">>
  ELSE LET s == StripTrailingSlashes(p)
           b == SubSeq(s, LastSlash(s) + 1, Len(s))
       IN IF b = <<>> THEN <<"/">> ELSE b

\* path.Dir / filepath.Dir
Dir(p) == Clean(SubSeq(p, 1, LastSlash(p)))

\* path.Join / filepath.Join of two elements
Join(a, b) ==
  IF a = <<>> /\ b = <<>> THEN <<>>
  ELSE IF a = <<>> THEN Clean(b)
  ELSE Clean(a \o <<"/">> \o b)


\* ------------------------------------------------------------------------
\* internal/store: File, whiteout names, Image.Unify
\* ------------------------------------------------------------------------
whiteoutPrefix == <<".", "w", "h", ".">>
whiteoutOpaque == whiteoutPrefix \o whiteoutPrefix \o <<"o", "p", "q">>

TypeReg == "reg"
TypeDir == "dir"

\* store.File: the tar header (by value) and the blob path.  Mode carries
\* the S_IFMT bits of Hdr.Mode ("none" when the header has permission bits
\* only); Size is Hdr.Size.
File(name, typeflag, mode, size, path) ==
  [Name |-> name, Typeflag |-> typeflag, Mode |-> mode, Size |-> size, Path |-> path]

\* a pointer to the k-th File of layer i (layers are base first)
Ref(i, k) == [layer |-> i, idx |-> k]
FileAt(ls, r) == ls[r.layer][r.idx]

\* the parent chain walked by isFinalized and inOpaqueDir, nearest first
RECURSIVE Ancestors(_)
Ancestors(path) ==
  IF path = <<>> \/ path = <<".">> \/ path = <<"/">> THEN <<>>
  ELSE LET parent == Dir(path)
       IN IF path = parent THEN <<>> ELSE <<parent>> \o Ancestors(parent)

isFinalized(fileMap, path) ==
  LET parents == Ancestors(path)
  IN \E n \in 1..Len(parents) :
        parents[n] \in DOMAIN fileMap /\ fileMap[parents[n]]

inOpaqueDir(opaqueDirs, path) ==
  LET parents == Ancestors(path)
  IN \E n \in 1..Len(parents) : parents[n] \in opaqueDirs

\* the loop state of Unify
UnifyStart ==
  [fileMap |-> <<>>, opaqueDirs |-> {}, newOpaqueDirs |-> {}, out |-> <<>>]

\* lines 80-83: an opaque marker is recorded for this layer, not emitted
MarkOpaqueEager(acc, dirName) ==
  [acc EXCEPT !.opaqueDirs = @ \cup {dirName}]
MarkOpaque(acc, dirName) ==
  [acc EXCEPT !.newOpaqueDirs = @ \cup {dirName}]

\* lines 117-122: record the path; emit the File unless it is a tombstone
RecordAlways(acc, finalPath, isTombstone, typeflag, ref) ==
  [acc EXCEPT !.fileMap = @ @@ (finalPath :> (isTombstone \/ typeflag # TypeDir)),
              !.out = Append(@, ref)]
RecordAndEmit(acc, finalPath, isTombstone, typeflag, ref) ==
  [acc EXCEPT !.fileMap = @ @@ (finalPath :> (isTombstone \/ typeflag # TypeDir)),
              !.out = IF isTombstone THEN @ ELSE Append(@, ref)]

\* line 102: a path already in fileMap is skipped
NeverSeen(fileMap, finalPath) == FALSE
AlreadySeen(fileMap, finalPath) == finalPath \in DOMAIN fileMap

\* the body of the inner loop (lines 72-123) for one File
UnifyFile(acc, file, ref) ==
  LET name     == Clean(file.Name)
      base0    == Base(name)
      dirName  == Dir(name)
  IN IF base0 = whiteoutOpaque THEN MarkOpaque(acc, dirName)
     ELSE
       LET isTombstone == HasPrefix(base0, whiteoutPrefix)
           baseName    == IF isTombstone
                            THEN SubSeq(base0, Len(whiteoutPrefix) + 1, Len(base0))
                            ELSE base0
           finalPath   == IF file.Typeflag = TypeDir THEN name
                          ELSE Join(dirName, baseName)
       IN IF AlreadySeen(acc.fileMap, finalPath) THEN acc
          ELSE IF isFinalized(acc.fileMap, finalPath)
                  \/ inOpaqueDir(acc.opaqueDirs, finalPath) THEN acc
          ELSE RecordAndEmit(acc, finalPath, isTombstone, file.Typeflag, ref)

\* one layer: its Files in tar order, then its opaque markers are merged
RECURSIVE UnifyFiles(_, _, _, _)
UnifyFiles(acc, ls, i, k) ==
  IF k > Len(ls[i]) THEN acc
  ELSE UnifyFiles(UnifyFile(acc, ls[i][k], Ref(i, k)), ls, i, k + 1)

UnifyLayer(acc, ls, i) ==
  LET a == UnifyFiles([acc EXCEPT !.newOpaqueDirs = {}], ls, i, 1)
  IN [a EXCEPT !.opaqueDirs = @ \cup a.newOpaqueDirs]

\* line 65: layers are visited from the top (last) to the base (first)
BottomUp(n, step) == step
TopDown(n, step) == n + 1 - step

RECURSIVE UnifyLayers(_, _, _)
UnifyLayers(acc, ls, step) ==
  IF step > Len(ls) THEN acc
  ELSE UnifyLayers(UnifyLayer(acc, ls, TopDown(Len(ls), step)), ls, step + 1)

\* line 135: the sort key is the Name of the File's own header
SortKeyCleaned(file) == Clean(file.Name)
SortKey(file) == file.Name

\* sort.Slice(out, less): the emitted Files have pairwise different names,
\* so the sorted order is unique
RECURSIVE SortRefs(_, _)
SortRefs(refs, ls) ==
  IF refs = <<>> THEN <<>>
  ELSE LET m == CHOOSE j \in 1..Len(refs) :
                  \A l \in 1..Len(refs) :
                     ~StrLess(SortKey(FileAt(ls, refs[l])), SortKey(FileAt(ls, refs[j])))
                     /\ (SortKey(FileAt(ls, refs[l])) = SortKey(FileAt(ls, refs[j])) => j <= l)
           rest == [n \in 1..(Len(refs) - 1) |-> IF n < m THEN refs[n] ELSE refs[n + 1]]
       IN <<refs[m]>> \o SortRefs(rest, ls)

\* Image.Unify: the emitted File pointers, sorted
Unify(ls) == SortRefs(UnifyLayers(UnifyStart, ls, 1).out, ls)

\* the Files behind the pointers, as the caller reads them
UnifyFilesOut(ls) == [n \in 1..Len(Unify(ls)) |-> FileAt(ls, Unify(ls)[n])]


\* ------------------------------------------------------------------------
\* State
\* ------------------------------------------------------------------------
VARIABLES
  layers,   \* Image.layers: base first, each layer its Files in tar order
  out,      \* the slice returned by Image.Unify (pointers into layers)
  upc,      \* "build" while the layers are unpacked, "done" after Unify
  roLookup, \* unionDir.roLookup: Hdr.Name -> File of the union view
  roDirs,   \* unionDir.roDirs
  extraDirs,\* the root unionDir's extraDirs
  hasWL,    \* unionDir.writableLayer != nil
  wlFiles,  \* WritableLayer.files
  content,  \* the files and directories under <writable>/content
  blobs,    \* the bytes of the blobs under blobs/sha256
  dirNodes, \* the unionDir nodes created so far
  nodes,    \* the unionFile nodes created so far
  handles,  \* the unionFileHandles created so far
  steps,    \* number of mutating filesystem operations so far
  last,     \* the last filesystem operation and what it returned
  srv,      \* the fuse.Server of the mount: "none", "serving", "unmounted", "waited"
  metadata, \* <writable>/metadata.json
  pullPolicy, \* Store.pullPolicy
  refStore, \* the files under refs/: reference -> the digest string in the file
  registry, \* the digest the registry serves for each reference
  oci,      \* the digests of the images in the local OCI layout
  layerFiles, \* the layers whose file list has been persisted
  pull,     \* the pullImage call in progress or the last one that returned
  blobDir,  \* the files under blobs/ as unpackLayer leaves them: path -> inode and bytes
  up,       \* the unpackLayer call of each process
  refsDir,  \* the tree under refs/: path -> directory, or file with its text
  rs,       \* the referenceStore call of each process and what the last one returned
  bound,    \* for each reference the hash of the last Put that returned nil
  pulls,    \* the pullImage call of each process when several use one store
  dirOps,   \* the Mkdir, Create or Unlink call of each kernel worker thread
  mountsDir,\* the directories under <store>/mounts
  mnt       \* the OCIFS.Mount call in progress or the last one that returned

uvars == <<layers, out, upc>>
mvars == <<srv, metadata>>
uvarsStore == <<blobDir, up, refsDir, rs, bound, pulls, dirOps, mountsDir, mnt>>
pvars == <<pullPolicy, refStore, registry, oci, layerFiles, pull, uvarsStore>>
fsvarsNoStore == <<roLookup, roDirs, extraDirs, hasWL, wlFiles, content, blobs,
                   dirNodes, nodes, handles, steps, last, mvars>>
fsvars == <<fsvarsNoStore, pvars>>
vars == <<layers, out, upc, roLookup, roDirs, extraDirs, hasWL, wlFiles, content,
          blobs, dirNodes, nodes, handles, steps, last, mvars, pvars>>

\* ------------------------------------------------------------------------
\* Bounds of the flattener inputs
\* ------------------------------------------------------------------------
MaxLayers == 3
MaxEntries == 3

\* tar header names as the registry delivers them (not cleaned)
nX    == <<"x">>
nXd   == <<"x", "/">>
nXF   == <<"x", "/", "f">>
nXX   == <<"x", "/", "x">>
nXdF  == <<"x", ".", "f">>
nDotX == <<".", "/", "x">>
nWhX  == whiteoutPrefix \o <<"x">>
nWhF  == <<"x", "/">> \o whiteoutPrefix \o <<"f">>
nOpqX == <<"x", "/">> \o whiteoutOpaque

\* blob paths under blobs/sha256 (Store.blobPath); a directory has none
b0 == <<"blobs", "b0">>
b1 == <<"blobs", "b1">>
b2 == <<"blobs", "b2">>
NoPath == <<>>

\* the tar records a layer is built from
TarFiles ==
  { File(nX,    TypeReg, "none", 1, b1),
    File(nXd,   TypeDir, "none", 0, NoPath),
    File(nXF,   TypeReg, "none", 1, b1),
    File(nXX,   TypeReg, "none", 2, b2),
    File(nXdF,  TypeReg, "none", 1, b1),
    File(nDotX, TypeReg, "none", 2, b2),
    File(nWhX,  TypeReg, "none", 0, b0),
    File(nWhX,  TypeDir, "none", 0, NoPath),
    File(nWhF,  TypeReg, "none", 0, b0),
    File(nOpqX, TypeReg, "none", 0, b0) }

RECURSIVE CountEntries(_)
CountEntries(ls) == IF ls = <<>> THEN 0 ELSE Len(Head(ls)) + CountEntries(Tail(ls))

\* ------------------------------------------------------------------------
\* Flattener specification: layers are unpacked record by record, then
\* Image.Unify runs on them
\* ------------------------------------------------------------------------
NoOp == [op |-> "none", dir |-> [path |-> <<>>, root |-> FALSE], name |-> <<>>,
         errno |-> "OK", kind |-> "none", writable |-> FALSE, node |-> 0,
         h |-> 0, data |-> <<>>, off |-> 0, copyup |-> FALSE, first |-> FALSE]

\* metadata.json: whether the file exists, and the members of the JSON object
\* in it
NoMetadata == [exists |-> FALSE, data |-> {}]

\* emptyHash, the v1.Hash returned with an error
emptyHash == ""

\* the frame of a pullImage call: where it stands, its reference, the cached
\* hash h, the remote image, the layers still to unpack, and what it has
\* done: Head and Image requests sent, layers unpacked, whether it wrote to
\* the store, and how it returned
NoPull ==
  [pc |-> "idle", ref |-> "", h |-> emptyHash, img |-> emptyHash, todo |-> <<>>,
   heads |-> 0, fetches |-> 0, unpacked |-> {}, wrote |-> FALSE, res |-> "none",
   ret |-> emptyHash, n |-> 0]

\* the processes that use one store directory
Procs == {1, 2}

\* the frame of an unpackLayer call: where it stands, the layer, the index
\* of the next tar record, the Files collected, the temp files whose removal
\* is deferred, the current temp file, the error it is returning, how it
\* returned, the number of calls and of temp files so far, the blob
\* directory as it was when the call began, and whether the error is ctx.Err()
NoUnpack ==
  [pc |-> "idle", layer |-> "", k |-> 1, files |-> <<>>, temps |-> {}, tf |-> <<>>,
   err |-> FALSE, res |-> "none", n |-> 0, made |-> 0, pre |-> <<>>, cause |-> "none"]

\* the frame of a referenceStore call: where it stands, Get or Put, the
\* reference, the hash of a Put, and what the last call returned
NoRefCall ==
  [pc |-> "idle", op |-> "none", ref |-> [repo |-> <<>>, id |-> ""], h |-> "", n |-> 0,
   res |-> [h |-> "", found |-> FALSE, err |-> "none"]]

\* the frame of a pullImage call of one of several processes: as NoPull,
\* and the number of unpackLayer and referenceStore calls the process had
\* made when it entered the call it is in, and the state of its context
NoPullOf ==
  [pc |-> "idle", ref |-> [repo |-> <<>>, id |-> ""], h |-> emptyHash, img |-> emptyHash,
   todo |-> <<>>, res |-> "none", ret |-> emptyHash, n |-> 0, calls |-> 0, ctx |-> "live"]

\* the worker threads on which the kernel's requests arrive
Threads == {1, 2}

\* the frame of a Mkdir, Create or Unlink call on the root directory: where
\* it stands, the operation, the name, the File it holds, the errno it
\* returned, and the writable layer as it was when the first call began
NoDirOp ==
  [pc |-> "idle", op |-> "none", name |-> <<>>, file |-> <<>>, errno |-> "none", pre |-> <<>>]

\* the frame of an OCIFS.Mount call with an id and no mount point: where it
\* stands, the id, how it returned and in which call it failed, the number
\* of calls, the pullImage calls made before it, and the mount points on
\* which a server runs
NoMount ==
  [pc |-> "idle", id |-> "", res |-> "none", failed |-> "none", n |-> 0, calls |-> 0,
   served |-> {}]

\* a blob directory and a reference directory that are empty and on which
\* no call runs
NoUnpacks ==
  /\ blobDir = <<>>
  /\ up = [p \in Procs |-> NoUnpack]
  /\ refsDir = (<<>> :> [kind |-> "dir", text |-> <<>>])
  /\ rs = [p \in Procs |-> NoRefCall]
  /\ bound = <<>>
  /\ pulls = [p \in Procs |-> NoPullOf]
  /\ dirOps = [t \in Threads |-> NoDirOp]
  /\ mountsDir = {}
  /\ mnt = NoMount

\* a store on which no pull runs
StoreIdle ==
  /\ pullPolicy = "IfNotPresent"
  /\ refStore = <<>>
  /\ registry = <<>>
  /\ oci = {}
  /\ layerFiles = {}
  /\ pull = NoPull
  /\ NoUnpacks

\* nothing is mounted while the layers are unpacked
Unmounted ==
  /\ roLookup = <<>>
  /\ roDirs = {}
  /\ extraDirs = {}
  /\ hasWL = FALSE
  /\ wlFiles = <<>>
  /\ content = <<>>
  /\ blobs = <<>>
  /\ dirNodes = {}
  /\ nodes = <<>>
  /\ handles = <<>>
  /\ steps = 0
  /\ last = NoOp
  /\ srv = "none"
  /\ metadata = NoMetadata

UInit ==
  /\ layers = <<>>
  /\ out = <<>>
  /\ upc = "build"
  /\ Unmounted
  /\ StoreIdle

\* a further layer of the image starts (Store.unpackLayer, next layer)
NewLayer ==
  /\ upc = "build"
  /\ Len(layers) < MaxLayers
  /\ IF layers = <<>> THEN TRUE ELSE layers[Len(layers)] # <<>>
  /\ layers' = Append(layers, <<>>)
  /\ UNCHANGED <<out, upc>>
  /\ UNCHANGED fsvars

\* Store.extractTar appends the next tar record to the layer's Files
AddFile(f) ==
  /\ upc = "build"
  /\ layers # <<>>
  /\ CountEntries(layers) < MaxEntries
  /\ layers' = [layers EXCEPT ![Len(layers)] = Append(@, f)]
  /\ UNCHANGED <<out, upc>>
  /\ UNCHANGED fsvars

\* Image.Unify on the unpacked layers
DoUnify ==
  /\ upc = "build"
  /\ out' = Unify(layers)
  /\ upc' = "done"
  /\ UNCHANGED layers
  /\ UNCHANGED fsvars

UNext ==
  \/ NewLayer
  \/ \E f \in TarFiles : AddFile(f)
  \/ DoUnify

SpecUnify == UInit /\ [][UNext]_vars


\* ------------------------------------------------------------------------
\* Properties of Image.Unify (checked under SpecUnify)
\* ------------------------------------------------------------------------
AllRefs == {Ref(i, k) : i \in 1..Len(layers), k \in 1..MaxEntries} \cap
           {r \in [layer : 1..Len(layers), idx : 1..MaxEntries] : r.idx <= Len(layers[r.layer])}
RefSet(refs) == {refs[n] : n \in 1..Len(refs)}
OutSet == RefSet(out)
CleanName(r) == Clean(FileAt(layers, r).Name)
Beneath(p, d) == \E n \in 1..Len(Ancestors(p)) : Ancestors(p)[n] = d

IsOpaqueMarker(r) == Base(CleanName(r)) = whiteoutOpaque
IsWhiteoutName(r) == HasPrefix(Base(CleanName(r)), whiteoutPrefix)
IsStdWhiteout(r) ==
  IsWhiteoutName(r) /\ ~IsOpaqueMarker(r) /\ FileAt(layers, r).Typeflag # TypeDir
WhiteoutTarget(r) ==
  Join(Dir(CleanName(r)), TrimPrefix(Base(CleanName(r)), whiteoutPrefix))

\* the layers without the record m, and the pointers of that list mapped back
WithoutRef(ls, m) ==
  [i \in 1..Len(ls) |->
     IF i = m.layer
       THEN [k \in 1..(Len(ls[i]) - 1) |-> IF k < m.idx THEN ls[i][k] ELSE ls[i][k + 1]]
       ELSE ls[i]]
Unshift(r, m) ==
  IF r.layer = m.layer /\ r.idx >= m.idx THEN Ref(r.layer, r.idx + 1) ELSE r
UnifyWithout(m) == {Unshift(r, m) : r \in RefSet(Unify(WithoutRef(layers, m)))}

\* C1: a standard whiteout .wh.X in directory D of layer i removes D/X and
\* everything beneath D/X that comes from a layer below i, whatever the
\* layers above i contain, and leaves what the layers above i contribute.
C1_WhiteoutHidesLowerLayers ==
  upc = "done" =>
    \A w \in AllRefs : IsStdWhiteout(w) =>
      /\ \A r \in OutSet : r.layer < w.layer =>
            /\ CleanName(r) # WhiteoutTarget(w)
            /\ ~Beneath(CleanName(r), WhiteoutTarget(w))
      /\ {r \in OutSet : r.layer > w.layer}
           = {r \in UnifyWithout(w) : r.layer > w.layer}

\* C2: an opaque marker in directory D of layer i removes every Entry
\* beneath D that comes from a layer below i and nothing else: the Entries
\* of layer i (before or after the marker), those of the layers above, and
\* D itself are what they are without the marker.
C2_OpaqueHidesLowerOnly ==
  upc = "done" =>
    \A m \in AllRefs : IsOpaqueMarker(m) =>
      LET D == Dir(CleanName(m))
      IN /\ \A r \in OutSet : ~(r.layer < m.layer /\ Beneath(CleanName(r), D))
         /\ OutSet = {r \in UnifyWithout(m) :
                        ~(r.layer < m.layer /\ Beneath(CleanName(r), D))}

\* C2 witness: a marker whose layer keeps an Entry that follows it, while an
\* Entry beneath D of a lower layer is gone
C2_Witness ==
  /\ upc = "done"
  /\ \E m \in AllRefs :
       /\ IsOpaqueMarker(m)
       /\ \E r \in OutSet : r.layer = m.layer /\ r.idx > m.idx
                              /\ Beneath(CleanName(r), Dir(CleanName(m)))
       /\ \E l \in AllRefs \ OutSet :
             l.layer < m.layer /\ ~IsWhiteoutName(l)
               /\ Beneath(CleanName(l), Dir(CleanName(m)))
               /\ l \in UnifyWithout(m)

\* C3: no emitted Entry has a basename that starts with ".wh.", whatever
\* the type flag of the whiteout or marker.
C3_NoWhiteoutEmitted ==
  upc = "done" => \A r \in OutSet : ~IsWhiteoutName(r)

\* C3 witness: whiteouts of both type flags and a marker were unpacked and
\* something was emitted
C3_Witness ==
  /\ upc = "done"
  /\ OutSet # {}
  /\ \E w \in AllRefs : IsStdWhiteout(w)
  /\ \E w \in AllRefs : IsWhiteoutName(w) /\ FileAt(layers, w).Typeflag = TypeDir

\* C4: at most one Entry is emitted per cleaned path, and the Entry emitted
\* for a path comes from the topmost layer that holds the path as a
\* non-whiteout entry.
C4_TopmostWins ==
  upc = "done" =>
    /\ \A r1, r2 \in OutSet : CleanName(r1) = CleanName(r2) => r1 = r2
    /\ \A n1, n2 \in 1..Len(out) : out[n1] = out[n2] => n1 = n2
    /\ \A r \in OutSet : \A q \in AllRefs :
          (~IsWhiteoutName(q) /\ CleanName(q) = CleanName(r)) => q.layer <= r.layer

\* C4 witness: a path held by two layers is emitted, from the upper one
C4_Witness ==
  /\ upc = "done"
  /\ \E r \in OutSet : \E q \in AllRefs :
        /\ q.layer < r.layer
        /\ CleanName(q) = CleanName(r)
        /\ FileAt(layers, q).Path # FileAt(layers, r).Path

\* C5: the Entries are returned in strictly ascending order of cleaned name.
C5_SortedByCleanedName ==
  upc = "done" =>
    \A n \in 1..(Len(out) - 1) : StrLess(CleanName(out[n]), CleanName(out[n + 1]))

\* C6: every Entry name of the union view is in cleaned form.
C6_NamesAreCleaned ==
  upc = "done" =>
    \A r \in OutSet : FileAt(layers, r).Name = Clean(FileAt(layers, r).Name)



\* ------------------------------------------------------------------------
\* The mounted filesystem: internal/unionfs over the writable layer
\* ------------------------------------------------------------------------
MaxNodes == 2      \* unionFile nodes alive at once
MaxHandles == 2    \* file handles open at once
MaxSteps == 2      \* mkdir, create, unlink and write calls per run
MaxWrites == 3     \* write calls per run when only files are read and written
MaxRead == 3       \* len(dest) of a read
MaxDepth == 1      \* components of the directories operations are issued on

\* the typeflag of a header built without one (tar.Header{Name: ..., Mode: 0})
TypeZero == "zero"

\* the bytes of the blobs when the mount is made
Blobs0 == (b0 :> <<>>) @@ (b1 :> <<1>>) @@ (b2 :> <<2, 3>>)

\* f with key k bound to v
Put(f, k, v) == [x \in (DOMAIN f) \cup {k} |-> IF x = k THEN v ELSE f[x]]

\* f without key k
Drop(f, k) == [x \in (DOMAIN f) \ {k} |-> f[x]]

Max(a, b) == IF a > b THEN a ELSE b
Min(a, b) == IF a < b THEN a ELSE b
SeqSet(s) == {s[n] : n \in 1..Len(s)}

\* os.File.ReadAt: up to n bytes from offset off
ReadAt(bytes, off, n) == SubSeq(bytes, off + 1, Min(off + n, Len(bytes)))

\* os.File.WriteAt: buf laid over bytes at offset off, a hole reads as zero
WriteAt(bytes, buf, off) ==
  [i \in 1..Max(Len(bytes), off + Len(buf)) |->
     IF i > off /\ i <= off + Len(buf) THEN buf[i - off]
     ELSE IF i <= Len(bytes) THEN bytes[i] ELSE 0]

\* --- the directory tree under <writable>/content ---
DirEnt == [kind |-> "dir", data |-> <<>>]
FileEnt(bytes) == [kind |-> "file", data |-> bytes]

\* WritableLayer.getContentPath: Join(path, "content", name); the model keeps
\* the part below the writable directory: "content", then the cleaned name
DotToEmpty(p) == IF p = <<".">> THEN <<>> ELSE p
ContentRel(name) == DotToEmpty(Clean(name))
ContentPath(rel) == <<"content">> \o rel
IsContentPath(p) == p # <<>> /\ Head(p) = "content"
IsBlobPath(p) == p # <<>> /\ Head(p) = "blobs"
RelOf(p) == Tail(p)

\* filepath.Dir of a content path, below "content"
ParentRel(rel) == IF rel = <<>> THEN <<>> ELSE DotToEmpty(Dir(rel))

IsFileAt(c, rel) == rel \in DOMAIN c /\ c[rel].kind = "file"
IsDirAt(c, rel) == rel \in DOMAIN c /\ c[rel].kind = "dir"

\* os.MkdirAll(rel): the directories it needs, rel and those above it; it
\* fails with ENOTDIR when one of them is a file
MkdirAllSet(rel) == (SeqSet(Ancestors(rel)) \ {<<".">>}) \cup {rel}
MkdirAllOK(c, dirs) == \A a \in dirs : ~IsFileAt(c, a)
MkdirAll(c, dirs) == [p \in (DOMAIN c) \cup dirs |-> IF p \in DOMAIN c THEN c[p] ELSE DirEnt]

\* os.Remove(rel): a file or an empty directory goes away
HasChildren(c, rel) == \E p \in DOMAIN c : p # <<>> /\ p # rel /\ ParentRel(p) = rel
RemoveOK(c, rel) == rel \notin DOMAIN c \/ IsFileAt(c, rel) \/ ~HasChildren(c, rel)

\* --- WritableLayer ---
\* SetFile: the content path is computed from the header name, the directory
\* (the path itself for a directory, its parent otherwise) is made, and the
\* entry is stored under Hdr.Name with its Path set.  The result carries the
\* new map, the new content tree and the File as the caller holds it after
\* the call.
SetFileStore(wl, c, file, rel, dirs) ==
  IF MkdirAllOK(c, dirs)
    THEN [ok |-> TRUE, wl |-> Put(wl, file.Name, [file EXCEPT !.Path = ContentPath(rel)]),
          content |-> MkdirAll(c, dirs), file |-> [file EXCEPT !.Path = ContentPath(rel)],
          rel |-> rel]
  ELSE [ok |-> FALSE, wl |-> wl, content |-> c, file |-> file, rel |-> rel]
SetFileAt(wl, c, file, rel) ==
  SetFileStore(wl, c, file, rel,
               MkdirAllSet(IF file.Typeflag = TypeDir THEN rel ELSE ParentRel(rel)))
SetFile(wl, c, file) == SetFileAt(wl, c, file, ContentRel(file.Name))

\* ListChildren(dirPath): the entries whose key, less the prefix, has no "/"
ListUnder(wl, pfx) ==
  {k \in DOMAIN wl : HasPrefix(k, pfx) /\ ~ContainsSlash(TrimPrefix(k, pfx))}
ListChildren(wl, dirPath) ==
  ListUnder(wl, IF dirPath # <<>> /\ dirPath[Len(dirPath)] # "/"
                  THEN dirPath \o <<"/">> ELSE dirPath)

\* --- unionfs.Init and its options ---
nF == <<"f">>

\* the images that are mounted, base layer first
Img1 == << <<File(nXd, TypeDir, "none", 0, NoPath), File(nXF, TypeReg, "none", 1, b1)>> >>
Img2 == << <<File(nX, TypeReg, "none", 1, b1), File(nF, TypeReg, "none", 1, b1)>>,
           <<File(nXF, TypeReg, "none", 2, b2)>> >>
Img3 == << <<File(nF, TypeReg, "none", 1, b1)>> >>

\* the mounts that are made: an image and the extra directory list
Mounts == {[img |-> Img1, dirs |-> <<>>], [img |-> Img2, dirs |-> <<>>],
           [img |-> Img3, dirs |-> <<nXF>>]}

\* the names passed to lookup and unlink, to mkdir, and to create
OpNames == {nX, nF}
MkdirNames == {nX}
CreateNames == {nF}

\* WithExtraDirs: each directory and its parents up to "/" or "."
RECURSIVE ExtraChain(_)
ExtraChain(d) ==
  IF d = <<"/">> \/ d = <<".">> THEN {} ELSE {d} \cup ExtraChain(Dir(d))
WithExtraDirs(dirs) == UNION {ExtraChain(dirs[n]) : n \in 1..Len(dirs)}

\* Init: roLookup is keyed by Hdr.Name as Unify returned it
InitRoLookup(files) ==
  [name \in {files[n].Name : n \in 1..Len(files)} |->
     files[CHOOSE n \in 1..Len(files) :
             files[n].Name = name /\ \A m \in (n + 1)..Len(files) : files[m].Name # name]]

\* Init: the parents of every name up to "." or "/"; the root "" is a dir
RECURSIVE RoDirChain(_)
RoDirChain(dir) ==
  IF dir = <<".">> \/ dir = <<"/">> THEN {} ELSE {dir} \cup RoDirChain(Dir(dir))
InitRoDirs(files) == {<<>>} \cup UNION {RoDirChain(Dir(files[n].Name)) : n \in 1..Len(files)}

\* --- nodes and handles ---
\* a unionDir node: its pathInFs and whether it is the root (only the root
\* carries extraDirs, newDirInode passes none on)
DirNode(path, isRoot) == [path |-> path, root |-> isRoot]
RootDir == DirNode(<<>>, TRUE)
NodeExtraDirs(d) == IF d.root THEN extraDirs ELSE {}

NoFile == File(<<>>, TypeZero, "none", 0, NoPath)

\* a unionFile node: alias says that uf.file is the File roLookup points to
FileNode(path, isWritable, alias, file) ==
  [path |-> path, isWritable |-> isWritable, alias |-> alias, file |-> file]
NodeFile(n) == IF nodes[n].alias THEN roLookup[nodes[n].path] ELSE nodes[n].file

\* a unionFileHandle: the node it was opened on and what its descriptor
\* refers to (a blob, a content file, or a content file that was removed)
FreeHandle == [node |-> 0, kind |-> "free", at |-> <<>>, data |-> <<>>, acc |-> "none"]
Handle(n, kind, at, acc) == [node |-> n, kind |-> kind, at |-> at, data |-> <<>>, acc |-> acc]
FreeSlots == {h \in DOMAIN handles : handles[h].kind = "free"}
OpenSlots == (DOMAIN handles) \ FreeSlots
FirstFree == CHOOSE h \in FreeSlots : \A g \in FreeSlots : h <= g

\* the bytes a descriptor refers to
FdBytes(fd, c, bl) ==
  CASE fd.kind = "blob" -> bl[fd.at]
    [] fd.kind = "content" -> c[fd.at].data
    [] OTHER -> fd.data

\* os.Remove of a content path: descriptors open on a removed file keep its
\* bytes, descriptors open on a removed directory keep nothing to read
Orphan(hs, c, rel) ==
  [h \in DOMAIN hs |->
     IF hs[h].kind = "content" /\ hs[h].at = rel /\ rel \in DOMAIN c
       THEN IF IsFileAt(c, rel) THEN [hs[h] EXCEPT !.kind = "orphan", !.data = c[rel].data]
            ELSE [hs[h] EXCEPT !.kind = "gone"]
     ELSE hs[h]]

\* Init with its options, then the root's OnAdd, which records the root
\* directory in the writable layer
InitMount(files, dirs, wl) ==
  /\ roLookup = InitRoLookup(files)
  /\ roDirs = InitRoDirs(files)
  /\ extraDirs = WithExtraDirs(dirs)
  /\ hasWL = wl
  /\ wlFiles = IF wl THEN SetFile(<<>>, <<>> :> DirEnt, File(<<>>, TypeDir, "dir", 0, NoPath)).wl
               ELSE <<>>
  /\ content = IF wl THEN (<<>> :> DirEnt) ELSE <<>>
  /\ blobs = Blobs0
  /\ dirNodes = {RootDir}
  /\ nodes = <<>>
  /\ handles = [h \in 1..MaxHandles |-> FreeHandle]
  /\ steps = 0
  /\ last = NoOp
  /\ srv = "serving"
  /\ metadata = NoMetadata
  /\ StoreIdle

\* the state right after Mount
Init ==
  \E m \in Mounts, wl \in BOOLEAN :
    /\ layers = m.img
    /\ out = Unify(m.img)
    /\ upc = "done"
    /\ InitMount(UnifyFilesOut(m.img), m.dirs, wl)

\* --- unionDir.Lookup ---
NoEnt == [errno |-> "ENOENT", kind |-> "none", writable |-> FALSE, file |-> NoFile]

\* newDirInode: a directory node for path
newDirInode(path) ==
  [errno |-> "OK", kind |-> "dir", writable |-> FALSE, file |-> [NoFile EXCEPT !.Name = path]]

\* newInodeFromFile: a directory node when the typeflag or the mode says so
newInodeFromFile(file, isWritable) ==
  IF file.Typeflag = TypeDir \/ file.Mode = "dir" THEN newDirInode(file.Name)
  ELSE [errno |-> "OK", kind |-> "file", writable |-> isWritable, file |-> file]

LookupAtTombstoneFirst(d, childPath, whiteoutPath) ==
  IF hasWL /\ whiteoutPath \in DOMAIN wlFiles THEN NoEnt
  ELSE IF hasWL /\ childPath \in DOMAIN wlFiles THEN newInodeFromFile(wlFiles[childPath], TRUE)
  ELSE IF childPath \in DOMAIN roLookup THEN newInodeFromFile(roLookup[childPath], FALSE)
  ELSE IF childPath \in roDirs THEN newDirInode(childPath)
  ELSE IF childPath \in NodeExtraDirs(d) THEN newDirInode(childPath)
  ELSE NoEnt
LookupAt(d, childPath, whiteoutPath) ==
  IF hasWL /\ childPath \in DOMAIN wlFiles THEN newInodeFromFile(wlFiles[childPath], TRUE)
  ELSE IF hasWL /\ whiteoutPath \in DOMAIN wlFiles THEN NoEnt
  ELSE IF childPath \in DOMAIN roLookup THEN newInodeFromFile(roLookup[childPath], FALSE)
  ELSE IF childPath \in roDirs THEN newDirInode(childPath)
  ELSE IF childPath \in NodeExtraDirs(d) THEN newDirInode(childPath)
  ELSE NoEnt

\* what Lookup(name) on directory node d returns in this state
LookupRes(d, name) == LookupAt(d, Join(d.path, name), Join(d.path, whiteoutPrefix \o name))

\* --- unionDir.Readdir ---
\* the children under prefix of a set of paths: names without "/"
ChildNames(paths, prefix, allowEmpty) ==
  {TrimPrefix(p, prefix) :
     p \in {q \in paths : /\ HasPrefix(q, prefix)
                          /\ ~ContainsSlash(TrimPrefix(q, prefix))
                          /\ (allowEmpty \/ TrimPrefix(q, prefix) # <<>>)}}

\* steps 1 and 2: read-only files, then roDirs and extraDirs as directories
ReaddirMerge(files, dirs, prefix) ==
  [n \in files \cup dirs |-> IF n \in dirs THEN "dir" ELSE roLookup[prefix \o n].Mode]
ReaddirUnder(d, prefix) ==
  ReaddirMerge(ChildNames(DOMAIN roLookup, prefix, TRUE),
               ChildNames(roDirs, prefix, FALSE) \cup ChildNames(NodeExtraDirs(d), prefix, FALSE),
               prefix)
ReaddirBase(d) == ReaddirUnder(d, IF d.path # <<>> THEN d.path \o <<"/">> ELSE <<>>)

\* step 3: the writable children laid over merged, one after the other
OverlayOne(merged, file, baseName) ==
  IF HasPrefix(baseName, whiteoutPrefix)
    THEN Drop(merged, TrimPrefix(baseName, whiteoutPrefix))
  ELSE Put(merged, baseName, file.Mode)
RECURSIVE Overlay(_, _)
Overlay(merged, keys) ==
  IF keys = <<>> THEN merged
  ELSE Overlay(OverlayOne(merged, wlFiles[Head(keys)], Base(wlFiles[Head(keys)].Name)),
               Tail(keys))

\* the orders in which a map iteration can visit a set of keys
RECURSIVE Orders(_)
Orders(S) ==
  IF S = {} THEN {<<>>}
  ELSE UNION {{<<k>> \o o : o \in Orders(S \ {k})} : k \in S}

OverlayAll(merged, orders) == {Overlay(merged, o) : o \in orders}

\* every name -> mode map that Readdir can return in this state
ReaddirResults(d) ==
  IF hasWL THEN OverlayAll(ReaddirBase(d), Orders(ListChildren(wlFiles, d.path)))
  ELSE {ReaddirBase(d)}

\* --- the operations ---
Depth(path) == IF path = <<>> THEN 0 ELSE Len(SplitSlash(path))

\* the directory nodes after one more was made; deeper ones are not used
AddDirNode(path) ==
  IF Depth(path) <= MaxDepth THEN dirNodes \cup {DirNode(path, FALSE)} ELSE dirNodes

LookupNode(r) ==
  /\ r.kind = "file" => Len(nodes) < MaxNodes
  /\ dirNodes' = IF r.kind = "dir" THEN AddDirNode(r.file.Name) ELSE dirNodes
  /\ nodes' = IF r.kind = "file"
                THEN Append(nodes, FileNode(r.file.Name, r.writable, ~r.writable,
                                            IF r.writable THEN r.file ELSE NoFile))
              ELSE nodes
  /\ UNCHANGED <<pvars, mvars, layers, out, upc, roLookup, roDirs, extraDirs, hasWL, wlFiles,
                 content, blobs, handles, steps, last>>

\* Lookup returns LookupRes(d, name) and adds the node it made
Lookup(d, name) == LookupNode(LookupRes(d, name))

\* Readdir returns one of ReaddirResults(d) and changes nothing
Readdir(d) ==
  /\ ReaddirResults(d) # {}
  /\ UNCHANGED vars

Called(op, d, name, errno) ==
  [NoOp EXCEPT !.op = op, !.dir = d, !.name = name, !.errno = errno]

MkdirSetUnchecked(d, name, childPath, sf) ==
  /\ steps < MaxSteps
  /\ steps' = steps + 1
  /\ wlFiles' = sf.wl
  /\ content' = sf.content
  /\ dirNodes' = IF sf.ok THEN AddDirNode(childPath) ELSE dirNodes
  /\ last' = [Called("mkdir", d, name, IF sf.ok THEN "OK" ELSE "ENOTDIR")
                EXCEPT !.kind = IF sf.ok THEN "dir" ELSE "none"]
  /\ UNCHANGED <<pvars, mvars, layers, out, upc, roLookup, roDirs, extraDirs, hasWL, blobs,
                 nodes, handles>>
MkdirSet(d, name, childPath, sf) ==
  /\ steps < MaxSteps
  /\ steps' = steps + 1
  /\ wlFiles' = IF hasWL THEN sf.wl ELSE wlFiles
  /\ content' = IF hasWL THEN sf.content ELSE content
  /\ dirNodes' = IF hasWL /\ sf.ok THEN AddDirNode(childPath) ELSE dirNodes
  /\ last' = [Called("mkdir", d, name,
                     IF ~hasWL THEN "EROFS" ELSE IF sf.ok THEN "OK" ELSE "ENOTDIR")
                EXCEPT !.kind = IF hasWL /\ sf.ok THEN "dir" ELSE "none"]
  /\ UNCHANGED <<pvars, mvars, layers, out, upc, roLookup, roDirs, extraDirs, hasWL, blobs,
                 nodes, handles>>
MkdirAt(d, name, childPath) ==
  MkdirSet(d, name, childPath,
           SetFile(wlFiles, content, File(childPath, TypeDir, "dir", 0, NoPath)))

\* Mkdir: EROFS without a writable layer, else SetFile of a directory header
Mkdir(d, name) == MkdirAt(d, name, Join(d.path, name))

\* the open flags the kernel passes: access mode and O_TRUNC
OpenFlags == {[acc |-> "r", trunc |-> FALSE], [acc |-> "rw", trunc |-> FALSE],
              [acc |-> "rw", trunc |-> TRUE]}
CreateFlags == {[acc |-> "rw", trunc |-> FALSE]}

CreateOpen(d, name, fl, childPath, sf, set, ok) ==
  /\ steps < MaxSteps
  /\ Len(nodes) < MaxNodes
  /\ FreeSlots # {}
  /\ steps' = steps + 1
  /\ wlFiles' = IF set THEN sf.wl ELSE wlFiles
  /\ content' = IF ok THEN Put(sf.content, sf.rel,
                               FileEnt(IF IsFileAt(sf.content, sf.rel) /\ ~fl.trunc
                                         THEN sf.content[sf.rel].data ELSE <<>>))
                ELSE IF set THEN sf.content ELSE content
  /\ nodes' = IF ok THEN Append(nodes, FileNode(childPath, TRUE, FALSE, sf.file)) ELSE nodes
  /\ handles' = IF ok THEN [handles EXCEPT ![FirstFree] =
                              Handle(Len(nodes) + 1, "content", sf.rel, fl.acc)]
                ELSE handles
  /\ last' = [Called("create", d, name,
                     IF ~hasWL THEN "EROFS" ELSE IF ~set THEN "ENOTDIR"
                     ELSE IF ok THEN "OK" ELSE "EISDIR")
                EXCEPT !.kind = IF ok THEN "file" ELSE "none", !.writable = ok,
                       !.node = IF ok THEN Len(nodes) + 1 ELSE 0,
                       !.h = IF ok THEN FirstFree ELSE 0]
  /\ UNCHANGED <<pvars, mvars, layers, out, upc, roLookup, roDirs, extraDirs, hasWL, blobs, dirNodes>>
CreateSet(d, name, fl, childPath, sf) ==
  CreateOpen(d, name, fl, childPath, sf, hasWL /\ sf.ok,
             hasWL /\ sf.ok /\ ~IsDirAt(sf.content, sf.rel))
CreateAt(d, name, fl, childPath) ==
  CreateSet(d, name, fl, childPath,
            SetFile(wlFiles, content, File(childPath, TypeReg, "reg", 0, NoPath)))

\* Create: SetFile, then os.OpenFile(file.Path, flags) with O_CREAT, then the
\* node and the handle
Create(d, name, fl) == CreateAt(d, name, fl, Join(d.path, name))

\* Unlink of a writable entry: DeleteFile removes the content path, then the
\* entry; an os.Remove error other than "not exist" keeps the entry
UnlinkRemove(d, name, childPath, rel, ok) ==
  /\ wlFiles' = IF ok THEN Drop(wlFiles, childPath) ELSE wlFiles
  /\ content' = IF ok THEN Drop(content, rel) ELSE content
  /\ handles' = IF ok THEN Orphan(handles, content, rel) ELSE handles
  /\ last' = Called("unlink", d, name, IF ok THEN "OK" ELSE "ENOTEMPTY")
UnlinkWritable(d, name, childPath, rel) ==
  UnlinkRemove(d, name, childPath, rel, RemoveOK(content, rel))

\* Unlink of a read-only file: a tombstone entry with a zero header, then
\* os.Create of its content path
UnlinkTouch(d, name, sf, ok) ==
  /\ wlFiles' = sf.wl
  /\ content' = IF ok THEN Put(sf.content, sf.rel, FileEnt(<<>>)) ELSE sf.content
  /\ handles' = handles
  /\ last' = Called("unlink", d, name,
                    IF ~sf.ok THEN "ENOTDIR" ELSE IF ok THEN "OK" ELSE "EISDIR")
UnlinkSet(d, name, sf) == UnlinkTouch(d, name, sf, sf.ok /\ ~IsDirAt(sf.content, sf.rel))
UnlinkReadOnlyNoTombstone(d, name, whiteoutPath) ==
  UnlinkSet(d, name, SetFile(wlFiles, content,
                             File(Join(d.path, name), TypeZero, "none", 0, NoPath)))
UnlinkReadOnly(d, name, whiteoutPath) ==
  UnlinkSet(d, name, SetFile(wlFiles, content, File(whiteoutPath, TypeZero, "none", 0, NoPath)))

UnlinkAt(d, name, childPath) ==
  /\ steps < MaxSteps
  /\ steps' = steps + 1
  /\ IF ~hasWL
       THEN /\ last' = Called("unlink", d, name, "EROFS")
            /\ UNCHANGED <<wlFiles, content, handles>>
     ELSE IF childPath \in DOMAIN wlFiles
       THEN UnlinkWritable(d, name, childPath, ContentRel(wlFiles[childPath].Name))
     ELSE IF childPath \in DOMAIN roLookup
       THEN UnlinkReadOnly(d, name, Join(d.path, whiteoutPrefix \o name))
     ELSE /\ last' = Called("unlink", d, name, "ENOENT")
          /\ UNCHANGED <<wlFiles, content, handles>>
  /\ UNCHANGED <<pvars, mvars, layers, out, upc, roLookup, roDirs, extraDirs, hasWL, blobs,
                 dirNodes, nodes>>

\* Unlink: EROFS without a writable layer; a writable entry is deleted; a
\* read-only file gets a tombstone; ENOENT otherwise
Unlink(d, name) == UnlinkAt(d, name, Join(d.path, name))

\* Open: the path on disk is uf.file.Path for a writable node and the
\* read-only File's Path otherwise (ENOENT when roLookup has no such File)
PathOnDisk(n) ==
  IF nodes[n].isWritable THEN NodeFile(n).Path
  ELSE IF nodes[n].path \in DOMAIN roLookup THEN roLookup[nodes[n].path].Path
  ELSE NoPath

\* os.OpenFile(p, flags) without O_CREAT
OpenErrno(p, fl) ==
  IF IsBlobPath(p) THEN "OK"
  ELSE IF ~IsContentPath(p) \/ RelOf(p) \notin DOMAIN content THEN "ENOENT"
  ELSE IF IsDirAt(content, RelOf(p)) /\ fl.acc # "r" THEN "EISDIR"
  ELSE "OK"

OpenFile(n, fl, p, ok) ==
  /\ FreeSlots # {}
  /\ handles' = IF ok THEN [handles EXCEPT ![FirstFree] =
                    Handle(n, IF IsBlobPath(p) THEN "blob" ELSE "content",
                           IF IsBlobPath(p) THEN p ELSE RelOf(p), fl.acc)]
                ELSE handles
  /\ blobs' = IF ok /\ fl.trunc /\ IsBlobPath(p) THEN [blobs EXCEPT ![p] = <<>>]
              ELSE blobs
  /\ content' = IF ok /\ fl.trunc /\ IsContentPath(p)
                  THEN [content EXCEPT ![RelOf(p)] = FileEnt(<<>>)]
                ELSE content
  /\ UNCHANGED <<pvars, mvars, layers, out, upc, roLookup, roDirs, extraDirs, hasWL, wlFiles,
                 dirNodes, nodes, steps, last>>
OpenAt(n, fl, p) == OpenFile(n, fl, p, OpenErrno(p, fl) = "OK")

\* Open: the flags go to os.OpenFile as they came
Open(n, fl) == OpenAt(n, fl, PathOnDisk(n))

\* Read: ReadAt on the handle's descriptor, any error but EOF is EIO
FdReadable(fd) ==
  /\ fd.acc \in {"r", "rw"}
  /\ fd.kind \in {"blob", "orphan"} \/ (fd.kind = "content" /\ IsFileAt(content, fd.at))

\* what Read on handle h returns in this state
ReadRes(h) ==
  IF FdReadable(handles[h])
    THEN [errno |-> "OK", data |-> ReadAt(FdBytes(handles[h], content, blobs), 0, MaxRead)]
  ELSE [errno |-> "EIO", data |-> <<>>]

\* Read returns ReadRes(h) and changes nothing
Read(h) ==
  /\ h \in OpenSlots
  /\ ReadRes(h).errno \in {"OK", "EIO"}
  /\ UNCHANGED vars

\* Release: the descriptor is closed
Release(h) ==
  /\ h \in OpenSlots
  /\ handles' = [handles EXCEPT ![h] = FreeHandle]
  /\ UNCHANGED <<pvars, mvars, layers, out, upc, roLookup, roDirs, extraDirs, hasWL, wlFiles,
                 content, blobs, dirNodes, nodes, steps, last>>

\* the buffers and offsets a write is issued with
WriteData == {<<7>>}
WriteOffsets == {0, 1}

\* the copy-on-write block of Write: SetFile of a new File with the node's
\* header, os.Open of the read-only File's Path, os.Create of the content
\* path, io.Copy, and the handle reopened O_RDWR on the copy; errno says at
\* which call it stopped
CopyBytes(n, sf, srcPath, created, errno) ==
  [errno |-> errno,
   wl |-> sf.wl,
   content |-> IF errno = "OK"
                 THEN Put(created, sf.rel,
                          FileEnt(IF IsBlobPath(srcPath) THEN blobs[srcPath]
                                  ELSE created[RelOf(srcPath)].data))
               ELSE IF sf.ok /\ ~IsDirAt(sf.content, sf.rel) /\ errno = "EISDIR" THEN created
               ELSE sf.content,
   fd |-> Handle(n, "content", sf.rel, "rw")]
CopyCreate(n, sf, srcPath, created) ==
  CopyBytes(n, sf, srcPath, created,
            IF ~sf.ok THEN "ENOTDIR"
            ELSE IF ~(IsBlobPath(srcPath)
                      \/ (IsContentPath(srcPath) /\ RelOf(srcPath) \in DOMAIN sf.content))
              THEN "ENOENT"
            ELSE IF IsDirAt(sf.content, sf.rel) THEN "EISDIR"
            ELSE IF IsContentPath(srcPath) /\ IsDirAt(created, RelOf(srcPath)) THEN "EISDIR"
            ELSE "OK")
CopyFrom(n, sf, srcPath) == CopyCreate(n, sf, srcPath, Put(sf.content, sf.rel, FileEnt(<<>>)))
CopyUp(n) == CopyFrom(n, SetFile(wlFiles, content, NodeFile(n)), roLookup[nodes[n].path].Path)

\* a node that is writable already: nothing is copied
NoCopy(h) == [errno |-> "OK", wl |-> wlFiles, content |-> content, fd |-> handles[h]]

\* the rest of Write: WriteAt on the handle's descriptor, Size grows by n,
\* SetFile(uf.file)
WriteSet(h, data, off, n, needCopy, cu, bytes, sf) ==
  /\ steps' = steps + 1
  /\ last' = [NoOp EXCEPT !.op = "write", !.h = h, !.node = n, !.data = data, !.off = off,
                !.errno = IF ~hasWL THEN "EROFS" ELSE cu.errno,
                !.copyup = hasWL /\ cu.errno = "OK" /\ needCopy,
                !.first = hasWL /\ cu.errno = "OK" /\ needCopy
                            /\ nodes[n].path \notin DOMAIN wlFiles]
  /\ IF ~hasWL THEN UNCHANGED <<wlFiles, content, blobs, handles, nodes, roLookup>>
     ELSE IF cu.errno # "OK"
       THEN /\ wlFiles' = cu.wl
            /\ content' = cu.content
            /\ UNCHANGED <<blobs, handles, nodes, roLookup>>
     ELSE /\ blobs' = IF cu.fd.kind = "blob" THEN [blobs EXCEPT ![cu.fd.at] = bytes] ELSE blobs
          /\ handles' = [handles EXCEPT ![h] =
                           IF cu.fd.kind = "orphan" THEN [cu.fd EXCEPT !.data = bytes]
                           ELSE cu.fd]
          /\ content' = sf.content
          /\ wlFiles' = sf.wl
          /\ roLookup' = IF nodes[n].alias THEN [roLookup EXCEPT ![nodes[n].path] = sf.file]
                         ELSE roLookup
          /\ nodes' = [nodes EXCEPT ![n] =
                         FileNode(@.path, TRUE, @.alias, IF @.alias THEN NoFile ELSE sf.file)]
  /\ UNCHANGED <<pvars, mvars, layers, out, upc, roDirs, extraDirs, hasWL, dirNodes>>
WriteBytes(h, data, off, n, needCopy, cu, bytes) ==
  WriteSet(h, data, off, n, needCopy, cu, bytes,
           SetFile(cu.wl,
                   IF cu.fd.kind = "content" THEN Put(cu.content, cu.fd.at, FileEnt(bytes))
                   ELSE cu.content,
                   [NodeFile(n) EXCEPT !.Size = @ + Len(data)]))
WriteCopied(h, data, off, n, needCopy, cu) ==
  WriteBytes(h, data, off, n, needCopy, cu,
             WriteAt(FdBytes(cu.fd, cu.content, blobs), data, off))
WriteNode(h, data, off, n) ==
  WriteCopied(h, data, off, n, ~nodes[n].isWritable,
              IF ~nodes[n].isWritable THEN CopyUp(n) ELSE NoCopy(h))

\* Write: EROFS without a writable layer; copy-up when the node is not
\* writable; then the write itself.  The kernel sends writes only on
\* handles that were opened for writing.
Write(h, data, off) ==
  /\ h \in OpenSlots
  /\ handles[h].acc = "rw"
  /\ WriteNode(h, data, off, handles[h].node)

Next ==
  \/ \E d \in dirNodes, name \in OpNames : Lookup(d, name)
  \/ \E d \in dirNodes : Readdir(d)
  \/ \E d \in dirNodes, name \in MkdirNames : Mkdir(d, name)
  \/ \E d \in dirNodes, name \in CreateNames, fl \in CreateFlags : Create(d, name, fl)
  \/ \E d \in dirNodes, name \in OpNames : Unlink(d, name)
  \/ \E n \in 1..Len(nodes), fl \in OpenFlags : Open(n, fl)
  \/ \E h \in DOMAIN handles : Read(h)
  \/ \E h \in DOMAIN handles, data \in WriteData, off \in WriteOffsets :
        steps < MaxSteps /\ Write(h, data, off)
  \/ \E h \in DOMAIN handles : Release(h)

Spec == Init /\ [][Next]_vars

\* The same mount when files are only looked up, opened, read, written and
\* released, and the kernel passes no O_TRUNC to Open.
PlainFlags == {fl \in OpenFlags : ~fl.trunc}

NextWrite ==
  \/ \E d \in dirNodes, name \in OpNames : Lookup(d, name)
  \/ \E n \in 1..Len(nodes), fl \in PlainFlags : Open(n, fl)
  \/ \E h \in DOMAIN handles : Read(h)
  \/ \E h \in DOMAIN handles, data \in WriteData, off \in WriteOffsets :
        steps < MaxWrites /\ Write(h, data, off)
  \/ \E h \in DOMAIN handles : Release(h)

SpecWrite == Init /\ [][NextWrite]_vars

\* ------------------------------------------------------------------------
\* Unmount and Wait of an ImageMount, and metadata.json
\* ------------------------------------------------------------------------
\* json.MarshalIndent of WritableLayer.files: one member per key, the File
\* with its header fields and with Path left out when it is empty
JsonFile(key, file) ==
  [key |-> key,
   Hdr |-> [Name |-> file.Name, Typeflag |-> file.Typeflag, Mode |-> file.Mode,
            Size |-> file.Size],
   Path |-> IF file.Path = NoPath THEN <<>> ELSE <<file.Path>>]
Marshal(wl) == {JsonFile(k, wl[k]) : k \in DOMAIN wl}

\* json.Unmarshal into a map[string]*File
FromJson(e) ==
  File(e.Hdr.Name, e.Hdr.Typeflag, e.Hdr.Mode, e.Hdr.Size,
       IF e.Path = <<>> THEN NoPath ELSE e.Path[1])
Unmarshal(data) ==
  [k \in {e.key : e \in data} |-> FromJson(CHOOSE e \in data : e.key = k)]

\* WritableLayer.Persist: metadata.json is written with the marshalled map
Persist == [exists |-> TRUE, data |-> Marshal(wlFiles)]

\* ImageMount.Unmount: srv.Unmount() and nothing else; the kernel refuses
\* to detach while files are open
Unmount ==
  /\ srv = "serving"
  /\ OpenSlots = {}
  /\ srv' = "unmounted"
  /\ UNCHANGED <<pvars, layers, out, upc, roLookup, roDirs, extraDirs, hasWL, wlFiles,
                 content, blobs, dirNodes, nodes, handles, steps, last, metadata>>

\* ImageMount.Wait: srv.Wait() returns once the server has stopped, then
\* PersistWritable when a writable directory was configured
Wait ==
  /\ srv = "unmounted"
  /\ srv' = "waited"
  /\ metadata' = IF hasWL THEN Persist ELSE metadata
  /\ UNCHANGED <<pvars, layers, out, upc, roLookup, roDirs, extraDirs, hasWL, wlFiles,
                 content, blobs, dirNodes, nodes, handles, steps, last>>

\* the operations that change the writable layer, then Unmount and Wait
NextMount ==
  \/ \E d \in dirNodes, name \in MkdirNames : srv = "serving" /\ Mkdir(d, name)
  \/ \E d \in dirNodes, name \in CreateNames, fl \in CreateFlags :
        srv = "serving" /\ Create(d, name, fl)
  \/ \E d \in dirNodes, name \in OpNames : srv = "serving" /\ Unlink(d, name)
  \/ \E h \in DOMAIN handles, data \in WriteData, off \in WriteOffsets :
        srv = "serving" /\ steps < MaxSteps /\ Write(h, data, off)
  \/ \E h \in DOMAIN handles : srv = "serving" /\ Release(h)
  \/ Unmount
  \/ Wait

SpecMount == Init /\ [][NextMount]_vars

\* ------------------------------------------------------------------------
\* Store.pullImage: the Reference Store, the registry and the local store
\* ------------------------------------------------------------------------
MaxPulls == 3      \* pullImage calls per run

PullIfNotPresent == "IfNotPresent"
PullAlways == "Always"
PullNever == "Never"
Policies == {PullIfNotPresent, PullAlways, PullNever}

\* the references resolved, the images a registry serves and their layers
Refs == {"r"}
Digests == {"d1", "d2"}
ImageLayers == ("d1" :> <<"l1">>) @@ ("d2" :> <<"l1", "l2">>)

\* referenceStore.Get: the file is missing, or holds a hash, or holds bytes
\* that v1.NewHash rejects
RefGet(ref) ==
  IF ref \notin DOMAIN refStore THEN [h |-> emptyHash, found |-> FALSE, err |-> FALSE]
  ELSE IF refStore[ref] \notin Digests THEN [h |-> emptyHash, found |-> FALSE, err |-> TRUE]
  ELSE [h |-> refStore[ref], found |-> TRUE, err |-> FALSE]

\* return h, nil and return emptyHash, err
ReturnHash(f, h) == [f EXCEPT !.pc = "idle", !.res = "ok", !.ret = h]
ReturnErr(f) == [f EXCEPT !.pc = "idle", !.res = "error", !.ret = emptyHash]

\* the store as a pull that does not reach a write leaves it
StoreUnchanged == UNCHANGED <<refStore, oci, layerFiles>>
PullFrame == UNCHANGED <<pullPolicy, registry, layers, out, upc, fsvarsNoStore, uvarsStore>>

\* lines 137-167 up to the Head request: the reference is looked up in the
\* cache and the policy decides
PullDecideHead(f, got) ==
  IF got.err THEN ReturnErr(f)
  ELSE IF ~got.found /\ pullPolicy = PullNever THEN ReturnErr(f)
  ELSE IF got.found THEN [f EXCEPT !.pc = "head", !.h = got.h]
  ELSE [f EXCEPT !.pc = "fetch"]
PullDecide(f, got) ==
  IF got.err THEN ReturnErr(f)
  ELSE IF ~got.found /\ pullPolicy = PullNever THEN ReturnErr(f)
  ELSE IF got.found /\ pullPolicy = PullIfNotPresent THEN ReturnHash(f, got.h)
  ELSE IF got.found THEN [f EXCEPT !.pc = "head", !.h = got.h]
  ELSE [f EXCEPT !.pc = "fetch"]
PullBegin(ref) ==
  /\ pull.pc = "idle"
  /\ pull.n < MaxPulls
  /\ pull' = PullDecide([NoPull EXCEPT !.ref = ref, !.n = pull.n + 1], RefGet(ref))
  /\ StoreUnchanged
  /\ PullFrame

\* lines 160-166: remote.Head; an equal digest ends the call
PullHeadNoCompare(ok) ==
  /\ pull.pc = "head"
  /\ pull' = IF ~ok \/ pull.ref \notin DOMAIN registry
               THEN ReturnErr([pull EXCEPT !.heads = @ + 1])
             ELSE ReturnHash([pull EXCEPT !.heads = @ + 1], pull.h)
  /\ StoreUnchanged
  /\ PullFrame
PullHead(ok) ==
  /\ pull.pc = "head"
  /\ pull' = IF ~ok \/ pull.ref \notin DOMAIN registry
               THEN ReturnErr([pull EXCEPT !.heads = @ + 1])
             ELSE IF registry[pull.ref] = pull.h
               THEN ReturnHash([pull EXCEPT !.heads = @ + 1], pull.h)
             ELSE [pull EXCEPT !.heads = @ + 1, !.pc = "fetch"]
  /\ StoreUnchanged
  /\ PullFrame

\* lines 170-173: remote.Image
PullFetch(ok) ==
  /\ pull.pc = "fetch"
  /\ pull' = IF ~ok \/ pull.ref \notin DOMAIN registry
               THEN ReturnErr([pull EXCEPT !.fetches = @ + 1])
             ELSE [pull EXCEPT !.fetches = @ + 1, !.img = registry[pull.ref],
                                !.pc = "append"]
  /\ StoreUnchanged
  /\ PullFrame

\* lines 176-196: AppendImage into the OCI layout, Digest, Image, Layers
PullAppendBinds(ok) ==
  /\ pull.pc = "append"
  /\ pull' = IF ~ok THEN ReturnErr([pull EXCEPT !.wrote = TRUE])
             ELSE [pull EXCEPT !.wrote = TRUE, !.h = pull.img,
                                !.todo = ImageLayers[pull.img], !.pc = "unpack"]
  /\ oci' = IF ok THEN oci \cup {pull.img} ELSE oci
  /\ refStore' = IF ok THEN Put(refStore, pull.ref, pull.img) ELSE refStore
  /\ UNCHANGED layerFiles
  /\ PullFrame
PullAppend(ok) ==
  /\ pull.pc = "append"
  /\ pull' = IF ~ok THEN ReturnErr([pull EXCEPT !.wrote = TRUE])
             ELSE [pull EXCEPT !.wrote = TRUE, !.h = pull.img,
                                !.todo = ImageLayers[pull.img], !.pc = "unpack"]
  /\ oci' = IF ok THEN oci \cup {pull.img} ELSE oci
  /\ UNCHANGED <<refStore, layerFiles>>
  /\ PullFrame

\* lines 197-201: unpackLayer of the next layer: the tar is extracted and
\* the layer's file list is persisted; an error or a cancelled context ends
\* the call
PullUnpack(ok) ==
  /\ pull.pc = "unpack"
  /\ pull.todo # <<>>
  /\ pull' = IF ~ok THEN ReturnErr([pull EXCEPT !.wrote = TRUE])
             ELSE [pull EXCEPT !.wrote = TRUE, !.todo = Tail(@),
                                !.unpacked = @ \cup {Head(pull.todo)}]
  /\ layerFiles' = IF ok THEN layerFiles \cup {Head(pull.todo)} ELSE layerFiles
  /\ UNCHANGED <<refStore, oci>>
  /\ PullFrame

\* referenceStore.Put: MkdirAll, then os.WriteFile, which truncates the file
\* before it writes: "ok", "nodir" (MkdirAll or the open failed) or "short"
\* (the write failed after the truncation)
PutOutcomes == {"ok", "nodir", "short"}
RefPut(ref, h, outcome) ==
  CASE outcome = "ok" -> Put(refStore, ref, h)
    [] outcome = "short" -> Put(refStore, ref, "")
    [] OTHER -> refStore

\* lines 203-208: the reference is bound once the loop over the layers is
\* through
PullPut(outcome) ==
  /\ pull.pc = "unpack"
  /\ pull.todo = <<>>
  /\ refStore' = RefPut(pull.ref, pull.h, outcome)
  /\ pull' = IF outcome = "ok" THEN ReturnHash([pull EXCEPT !.wrote = TRUE], pull.h)
             ELSE ReturnErr([pull EXCEPT !.wrote = (outcome = "short")])
  /\ UNCHANGED <<oci, layerFiles>>
  /\ PullFrame

\* the process dies in the middle of a pull
PullCrash ==
  /\ pull.pc # "idle"
  /\ pull' = [pull EXCEPT !.pc = "idle", !.res = "crashed", !.ret = emptyHash]
  /\ StoreUnchanged
  /\ PullFrame

\* the tag is moved on the registry
RegistryPush(ref, d) ==
  /\ ref \notin DOMAIN registry \/ registry[ref] # d
  /\ registry' = Put(registry, ref, d)
  /\ UNCHANGED <<pullPolicy, pull, refStore, oci, layerFiles, layers, out, upc, fsvarsNoStore,
                 uvarsStore>>

\* a store with a policy, empty or left by an earlier run with the
\* reference bound
PInit ==
  /\ layers = <<>>
  /\ out = <<>>
  /\ upc = "build"
  /\ Unmounted
  /\ pullPolicy \in Policies
  /\ registry \in [Refs -> Digests]
  /\ \E cached \in {{}} \cup {{d} : d \in Digests} :
       /\ refStore = [r \in {r \in Refs : cached # {}} |-> CHOOSE d \in cached : TRUE]
       /\ oci = cached
       /\ layerFiles = UNION {SeqSet(ImageLayers[d]) : d \in cached}
  /\ pull = NoPull
  /\ NoUnpacks

PNext ==
  \/ \E ref \in Refs : PullBegin(ref)
  \/ \E ok \in BOOLEAN : PullHead(ok)
  \/ \E ok \in BOOLEAN : PullFetch(ok)
  \/ \E ok \in BOOLEAN : PullAppend(ok)
  \/ \E ok \in BOOLEAN : PullUnpack(ok)
  \/ \E outcome \in PutOutcomes : PullPut(outcome)
  \/ PullCrash
  \/ \E ref \in Refs, d \in Digests : RegistryPush(ref, d)

SpecPull == PInit /\ [][PNext]_vars

\* ------------------------------------------------------------------------
\* Store.unpackLayer and Store.extractTar on the blob directory
\* ------------------------------------------------------------------------
MaxUnpacks == 2    \* unpackLayer calls per process
MaxCalls == 3      \* unpackLayer calls of all processes together

\* the uncompressed tar stream of each layer: header name, typeflag, bytes
TarRecord(name, typeflag, data) == [Name |-> name, Typeflag |-> typeflag, data |-> data]
LayerTar ==
  ("l1" :> <<TarRecord(nXd, TypeDir, <<>>), TarRecord(nXF, TypeReg, <<1>>)>>) @@
  ("l2" :> <<TarRecord(nF, TypeReg, <<1>>), TarRecord(nXX, TypeReg, <<2, 3>>)>>)
UnpackLayers == DOMAIN LayerTar

\* hex.EncodeToString(sha256 of the bytes), on the byte strings that occur
Sha256(bytes) ==
  CASE bytes = <<>> -> "b0"
    [] bytes = <<1>> -> "b1"
    [] bytes = <<2, 3>> -> "b2"
    [] bytes = <<2>> -> "b3"

\* Store.blobPath: blobs/<algorithm>/<hex>
blobPath(hex) == <<"blobs", hex>>

\* os.CreateTemp(blobsDir, "blob-*"): a name no other file has
TempNames == (1 :> <<"t11", "t12", "t13", "t14">>) @@ (2 :> <<"t21", "t22", "t23", "t24">>)
TempPath(p, made) == <<"blobs", TempNames[p][made + 1]>>

\* a file in the blob directory: its inode and its bytes
DirFile(ino, data) == [ino |-> ino, data |-> data]

\* json.Marshal(layerMetadata{Files}) and what is left of it when the write
\* stops early; json.Unmarshal accepts the whole text only
MarshalLayer(files) == [text |-> files, whole |-> TRUE]
CutJson == [text |-> <<>>, whole |-> FALSE]

\* io.CopyBuffer that stops with an error has written a part of the bytes
CutBytes(data) == SubSeq(data, 1, Len(data) - 1)

UnpackFrame ==
  UNCHANGED <<pullPolicy, refStore, registry, oci, pull, layers, out, upc, fsvarsNoStore,
              refsDir, rs, bound, pulls, dirOps, mountsDir, mnt>>
UpSet(p, f, dir, done) ==
  /\ up' = [up EXCEPT ![p] = f]
  /\ blobDir' = dir
  /\ layerFiles' = layerFiles \cup done
  /\ UnpackFrame

\* extractTar returns an error: the deferred calls run first
Fail(f) == [f EXCEPT !.pc = "defer", !.err = TRUE]

\* unpackLayer, lines 211-217: layer.Uncompressed()
UnpackBegin(p, layer, ok) ==
  /\ up[p].pc = "idle"
  /\ up[p].n < MaxUnpacks
  /\ UpSet(p, IF ok THEN [NoUnpack EXCEPT !.pc = "next", !.layer = layer, !.n = up[p].n + 1,
                                          !.made = up[p].made, !.pre = blobDir]
              ELSE [NoUnpack EXCEPT !.layer = layer, !.n = up[p].n + 1, !.res = "error",
                                    !.made = up[p].made, !.pre = blobDir],
           blobDir, {})

\* extractTar, lines 253-279: the context is checked, tr.Next() gives the
\* next header or io.EOF, the File is appended, and a record that is not a
\* regular file is done with
ExtractNextRecord(p, f, rec) ==
  UpSet(p, [f EXCEPT !.files = Append(@, File(rec.Name, rec.Typeflag, "none", Len(rec.data), NoPath)),
                     !.pc = IF rec.Typeflag # TypeReg THEN "next" ELSE "temp",
                     !.k = IF rec.Typeflag # TypeReg THEN @ + 1 ELSE @],
        blobDir, {})
ExtractNext(p, ok) ==
  /\ up[p].pc = "next"
  /\ IF ~ok THEN UpSet(p, Fail(up[p]), blobDir, {})
     ELSE IF up[p].k > Len(LayerTar[up[p].layer])
       THEN UpSet(p, [up[p] EXCEPT !.pc = "defer"], blobDir, {})
     ELSE ExtractNextRecord(p, up[p], LayerTar[up[p].layer][up[p].k])

\* lines 282-287: os.CreateTemp, and its removal is deferred
ExtractTemp(p, ok) ==
  /\ up[p].pc = "temp"
  /\ up[p].made < Len(TempNames[p])
  /\ IF ~ok THEN UpSet(p, Fail(up[p]), blobDir, {})
     ELSE UpSet(p, [up[p] EXCEPT !.pc = "copy", !.tf = TempPath(p, up[p].made),
                                 !.temps = @ \cup {TempPath(p, up[p].made)},
                                 !.made = @ + 1],
                Put(blobDir, TempPath(p, up[p].made),
                    DirFile(TempPath(p, up[p].made)[2], <<>>)),
                {})

\* lines 289-303: the record's bytes go to the temp file and to the hasher,
\* and the File's Path is the blob path of the hash
ExtractCopyTo(p, f, data, ok) ==
  IF ~ok THEN UpSet(p, Fail(f), [blobDir EXCEPT ![f.tf].data = CutBytes(data)], {})
  ELSE UpSet(p, [f EXCEPT !.pc = "stat",
                          !.files[Len(f.files)].Path = blobPath(Sha256(data))],
             [blobDir EXCEPT ![f.tf].data = data], {})
ExtractCopy(p, ok) ==
  /\ up[p].pc = "copy"
  /\ ExtractCopyTo(p, up[p], LayerTar[up[p].layer][up[p].k].data, ok)

\* lines 305-310: os.Stat(blobPath): a blob that exists is kept
ExtractStatAlways(p, f, path, ok) ==
  IF ~ok THEN UpSet(p, Fail(f), blobDir, {})
  ELSE UpSet(p, [f EXCEPT !.pc = "rename"], blobDir, {})
ExtractStatAt(p, f, path, ok) ==
  IF ~ok THEN UpSet(p, Fail(f), blobDir, {})
  ELSE IF path \in DOMAIN blobDir
    THEN UpSet(p, [f EXCEPT !.pc = "next", !.k = @ + 1], blobDir, {})
  ELSE UpSet(p, [f EXCEPT !.pc = "rename"], blobDir, {})
ExtractStat(p, ok) ==
  /\ up[p].pc = "stat"
  /\ ExtractStatAt(p, up[p], up[p].files[Len(up[p].files)].Path, ok)

\* lines 312-315: os.Rename(tf.Name(), blobPath)
ExtractRenameNoMove(p, f, path, ok) ==
  IF ~ok THEN UpSet(p, Fail(f), blobDir, {})
  ELSE UpSet(p, [f EXCEPT !.pc = "next", !.k = @ + 1], blobDir, {})
ExtractRenameTo(p, f, path, ok) ==
  IF ~ok THEN UpSet(p, Fail(f), blobDir, {})
  ELSE UpSet(p, [f EXCEPT !.pc = "next", !.k = @ + 1],
             Put(Drop(blobDir, f.tf), path, blobDir[f.tf]), {})
ExtractRename(p, ok) ==
  /\ up[p].pc = "rename"
  /\ ExtractRenameTo(p, up[p], up[p].files[Len(up[p].files)].Path, ok)

\* extractTar returns: the deferred os.Remove calls run, an error goes up
\* through unpackLayer (lines 220-223)
ExtractReturn(p) ==
  /\ up[p].pc = "defer"
  /\ UpSet(p, IF up[p].err THEN [up[p] EXCEPT !.pc = "idle", !.res = "error"]
              ELSE [up[p] EXCEPT !.pc = "persist"],
           [path \in (DOMAIN blobDir) \ up[p].temps |-> blobDir[path]], {})

\* Layer.Persist, lines 36-43: json.Marshal, then os.WriteFile at the blob
\* path of the layer digest; os.WriteFile opens with O_CREATE|O_TRUNC first
PersistOpenAt(p, f, path, ok) ==
  IF ~ok THEN UpSet(p, [f EXCEPT !.pc = "idle", !.res = "error", !.err = TRUE], blobDir, {})
  ELSE UpSet(p, [f EXCEPT !.pc = "write"],
             Put(blobDir, path, DirFile(IF path \in DOMAIN blobDir THEN blobDir[path].ino
                                        ELSE path[2], CutJson)),
             {})
PersistOpen(p, ok) ==
  /\ up[p].pc = "persist"
  /\ PersistOpenAt(p, up[p], blobPath(up[p].layer), ok)

\* ... and then writes the data; a write that fails leaves what it wrote
PersistWriteAt(p, f, path, ok) ==
  IF ~ok THEN UpSet(p, [f EXCEPT !.pc = "idle", !.res = "error", !.err = TRUE], blobDir, {})
  ELSE UpSet(p, [f EXCEPT !.pc = "idle", !.res = "ok"],
             [blobDir EXCEPT ![path].data = MarshalLayer(f.files)], {f.layer})
PersistWrite(p, ok) ==
  /\ up[p].pc = "write"
  /\ PersistWriteAt(p, up[p], blobPath(up[p].layer), ok)

\* the operations of unpackLayer for process p
UnpackStep(p) ==
  \/ \E layer \in UnpackLayers, ok \in BOOLEAN : UnpackBegin(p, layer, ok)
  \/ \E ok \in BOOLEAN : ExtractNext(p, ok)
  \/ \E ok \in BOOLEAN : ExtractTemp(p, ok)
  \/ \E ok \in BOOLEAN : ExtractCopy(p, ok)
  \/ \E ok \in BOOLEAN : ExtractStat(p, ok)
  \/ \E ok \in BOOLEAN : ExtractRename(p, ok)
  \/ ExtractReturn(p)
  \/ \E ok \in BOOLEAN : PersistOpen(p, ok)
  \/ \E ok \in BOOLEAN : PersistWrite(p, ok)

\* a new store directory
UnpackInit ==
  /\ layers = <<>>
  /\ out = <<>>
  /\ upc = "build"
  /\ Unmounted
  /\ StoreIdle

\* one process unpacks layers, one call after the other
UnpackSeqNext == UnpackStep(1)
SpecUnpackSeq == UnpackInit /\ [][UnpackSeqNext]_vars

\* two processes unpack layers into one store directory
UnpackNext ==
  \E p \in Procs : (up[p].pc = "idle" => up[1].n + up[2].n < MaxCalls) /\ UnpackStep(p)
SpecUnpack == UnpackInit /\ [][UnpackNext]_vars

\* ------------------------------------------------------------------------
\* referenceStore.Get and referenceStore.Put on the refs directory
\* ------------------------------------------------------------------------
MaxRefCalls == 4   \* Get and Put calls per process

\* a name.Reference: the repository with its registry (Context().Name(),
\* split at "/") and the tag or digest (Identifier())
Reference(repo, id) == [repo |-> repo, id |-> id]
RefNames == {Reference(<<"g", "a">>, "b"), Reference(<<"g", "a", "b">>, "c")}

\* referenceStore.pathForRef: Join(rc, ref.Context().Name(), ref.Identifier()),
\* as the components below the refs directory
pathForRef(ref) == ref.repo \o <<ref.id>>

\* v1.Hash.String(): algorithm, ":", hex
HashString(h) == <<"sha256", ":", h>>

\* v1.NewHash: the text must be algorithm:hex with a hex of the full length
NewHash(text) ==
  IF Len(text) = 3 /\ text[1] = "sha256" /\ text[2] = ":" /\ text[3] \in Digests
    THEN [h |-> text[3], err |-> FALSE]
  ELSE [h |-> emptyHash, err |-> TRUE]

\* entries of the refs tree
RefDirEnt == [kind |-> "dir", text |-> <<>>]
RefFileEnt(text) == [kind |-> "file", text |-> text]

\* a component of the path above its last one is a file
ThroughFile(tree, path) ==
  \E n \in 1..(Len(path) - 1) :
    SubSeq(path, 1, n) \in DOMAIN tree /\ tree[SubSeq(path, 1, n)].kind = "file"

\* os.ReadFile: ENOTDIR, ENOENT, EISDIR or the text
ReadFile(tree, path) ==
  IF ThroughFile(tree, path) THEN [errno |-> "ENOTDIR", text |-> <<>>]
  ELSE IF path \notin DOMAIN tree THEN [errno |-> "ENOENT", text |-> <<>>]
  ELSE IF tree[path].kind = "dir" THEN [errno |-> "EISDIR", text |-> <<>>]
  ELSE [errno |-> "OK", text |-> tree[path].text]

\* referenceStore.Get: a file that does not exist is "not present"; any
\* other read error is returned; text that NewHash rejects is an error
GetFrom(rd) ==
  IF rd.errno = "ENOENT" THEN [h |-> emptyHash, found |-> FALSE, err |-> "none"]
  ELSE IF rd.errno # "OK" THEN [h |-> emptyHash, found |-> FALSE, err |-> rd.errno]
  ELSE IF NewHash(rd.text).err THEN [h |-> emptyHash, found |-> FALSE, err |-> "invalid"]
  ELSE [h |-> NewHash(rd.text).h, found |-> TRUE, err |-> "none"]
StoreGet(ref) == GetFrom(ReadFile(refsDir, pathForRef(ref)))

RefFrame ==
  UNCHANGED <<pullPolicy, refStore, registry, oci, layerFiles, pull, layers, out, upc,
              fsvarsNoStore, blobDir, up, pulls, dirOps, mountsDir, mnt>>
RsSet(p, f, tree, b) ==
  /\ rs' = [rs EXCEPT ![p] = f]
  /\ refsDir' = tree
  /\ bound' = b
  /\ RefFrame

\* a Put that returns an error
PutErr(f, errno) ==
  [f EXCEPT !.pc = "idle", !.res = [h |-> emptyHash, found |-> FALSE, err |-> errno]]

\* Get(ref), lines 194-207
Get(p, ref) ==
  /\ rs[p].pc = "idle"
  /\ rs[p].n < MaxRefCalls
  /\ RsSet(p, [NoRefCall EXCEPT !.op = "get", !.ref = ref, !.n = rs[p].n + 1,
                                !.res = StoreGet(ref)],
           refsDir, bound)

\* Put(ref, hash), lines 211-214: os.MkdirAll of the directory of the path
PutMkdirAllTo(p, f, dirs, ok) ==
  IF ~ok \/ \E d \in dirs : d \in DOMAIN refsDir /\ refsDir[d].kind = "file"
    THEN RsSet(p, PutErr(f, "ENOTDIR"), refsDir, bound)
  ELSE RsSet(p, [f EXCEPT !.pc = "open"],
             [d \in (DOMAIN refsDir) \cup dirs |->
                IF d \in DOMAIN refsDir THEN refsDir[d] ELSE RefDirEnt],
             bound)
PutMkdirAll(p, ref, h, ok) ==
  /\ rs[p].pc = "idle"
  /\ rs[p].n < MaxRefCalls
  /\ PutMkdirAllTo(p, [NoRefCall EXCEPT !.op = "put", !.ref = ref, !.h = h, !.n = rs[p].n + 1],
                   {SubSeq(pathForRef(ref), 1, n) : n \in 1..(Len(pathForRef(ref)) - 1)}, ok)

\* line 216, os.WriteFile: the file is opened with O_CREATE|O_TRUNC ...
PutOpenAt(p, f, path, ok) ==
  IF ~ok THEN RsSet(p, PutErr(f, "EIO"), refsDir, bound)
  ELSE IF path \in DOMAIN refsDir /\ refsDir[path].kind = "dir"
    THEN RsSet(p, PutErr(f, "EISDIR"), refsDir, bound)
  ELSE RsSet(p, [f EXCEPT !.pc = "write"], Put(refsDir, path, RefFileEnt(<<>>)), bound)
PutOpen(p, ok) ==
  /\ rs[p].pc = "open"
  /\ PutOpenAt(p, rs[p], pathForRef(rs[p].ref), ok)

\* ... and the text of the hash is written; a write that fails has written
\* the first n bytes of it
PutWriteAt(p, f, path, ok, n) ==
  IF ~ok THEN RsSet(p, PutErr(f, "EIO"),
                    Put(refsDir, path, RefFileEnt(SubSeq(HashString(f.h), 1, n))), bound)
  ELSE RsSet(p, [f EXCEPT !.pc = "idle", !.res = [h |-> f.h, found |-> TRUE, err |-> "none"]],
             Put(refsDir, path, RefFileEnt(HashString(f.h))), Put(bound, f.ref, f.h))
PutWrite(p, ok, n) ==
  /\ rs[p].pc = "write"
  /\ ok => n = 0
  /\ PutWriteAt(p, rs[p], pathForRef(rs[p].ref), ok, n)

\* the process dies in the middle of a Put
PutCrash(p) ==
  /\ rs[p].pc # "idle"
  /\ RsSet(p, PutErr(rs[p], "crashed"), refsDir, bound)

\* a new store directory
RefInit ==
  /\ layers = <<>>
  /\ out = <<>>
  /\ upc = "build"
  /\ Unmounted
  /\ StoreIdle

\* one caller, one call after the other, and every system call succeeds
\* when the state of the directory lets it
RefSeqNext ==
  \/ \E ref \in RefNames : Get(1, ref)
  \/ \E ref \in RefNames, h \in Digests : PutMkdirAll(1, ref, h, TRUE)
  \/ PutOpen(1, TRUE)
  \/ PutWrite(1, TRUE, 0)
SpecRefSeq == RefInit /\ [][RefSeqNext]_vars

\* two callers on one reference, system calls may fail, a caller may die
OneRef == Reference(<<"g", "a">>, "b")
RefNext ==
  \E p \in Procs :
    \/ Get(p, OneRef)
    \/ \E h \in Digests, ok \in BOOLEAN : PutMkdirAll(p, OneRef, h, ok)
    \/ \E ok \in BOOLEAN : PutOpen(p, ok)
    \/ \E ok \in BOOLEAN, n \in 0..2 : PutWrite(p, ok, n)
    \/ PutCrash(p)
SpecRef == RefInit /\ [][RefNext]_vars

\* ------------------------------------------------------------------------
\* Store.pullImage of several processes on one store directory
\* ------------------------------------------------------------------------
MaxPullsEach == 2  \* pullImage calls per process

PsSet(p, f, o) ==
  /\ pulls' = [pulls EXCEPT ![p] = f]
  /\ oci' = o
  /\ UNCHANGED <<pullPolicy, refStore, registry, layerFiles, pull, layers, out, upc,
                 fsvarsNoStore, blobDir, up, refsDir, rs, bound, dirOps, mountsDir, mnt>>

\* lines 137-167 up to the Head request: s.refs.Get(ref), then the policy
PullsDecide(p, f, got) ==
  PsSet(p, PullDecide(f, [h |-> got.h, found |-> got.found, err |-> got.err # "none"]), oci)
PullsBegin(p, ref) ==
  /\ pulls[p].pc = "idle"
  /\ pulls[p].n < MaxPullsEach
  /\ PullsDecide(p, [NoPullOf EXCEPT !.ref = ref, !.n = pulls[p].n + 1], StoreGet(ref))

\* lines 160-166: remote.Head
PullsHead(p) ==
  /\ pulls[p].pc = "head"
  /\ PsSet(p, IF registry[pulls[p].ref] = pulls[p].h THEN ReturnHash(pulls[p], pulls[p].h)
              ELSE [pulls[p] EXCEPT !.pc = "fetch"],
           oci)

\* lines 170-173: remote.Image
PullsFetch(p) ==
  /\ pulls[p].pc = "fetch"
  /\ PsSet(p, [pulls[p] EXCEPT !.img = registry[pulls[p].ref], !.pc = "append"], oci)

\* lines 176-196: AppendImage, Digest, Image, Layers
PullsAppend(p) ==
  /\ pulls[p].pc = "append"
  /\ PsSet(p, [pulls[p] EXCEPT !.h = pulls[p].img, !.todo = ImageLayers[pulls[p].img],
                               !.pc = "unpack"],
           oci \cup {pulls[p].img})

\* lines 197-201: s.unpackLayer(ctx, layer) is called for the next layer ...
PullsCallUnpack(p) ==
  /\ pulls[p].pc = "unpack"
  /\ pulls[p].todo # <<>>
  /\ PsSet(p, [pulls[p] EXCEPT !.pc = "unpacking", !.calls = up[p].n], oci)

\* ... it runs ...
PullsUnpack(p) ==
  /\ pulls[p].pc = "unpacking"
  /\ \/ pulls[p].calls = up[p].n /\ UnpackBegin(p, Head(pulls[p].todo), TRUE)
     \/ ExtractNext(p, TRUE)
     \/ ExtractTemp(p, TRUE)
     \/ ExtractCopy(p, TRUE)
     \/ ExtractStat(p, TRUE)
     \/ ExtractRename(p, TRUE)
     \/ ExtractReturn(p)
     \/ PersistOpen(p, TRUE)
     \/ PersistWrite(p, TRUE)

\* ... and returns: an error ends the pull, else the loop goes on
PullsUnpackReturn(p) ==
  /\ pulls[p].pc = "unpacking"
  /\ up[p].n > pulls[p].calls
  /\ up[p].pc = "idle"
  /\ PsSet(p, IF up[p].res = "ok" THEN [pulls[p] EXCEPT !.pc = "unpack", !.todo = Tail(@)]
              ELSE ReturnErr(pulls[p]),
           oci)

\* lines 203-206: s.refs.Put(ref, h) is called after the loop ...
PullsCallPut(p) ==
  /\ pulls[p].pc = "unpack"
  /\ pulls[p].todo = <<>>
  /\ PsSet(p, [pulls[p] EXCEPT !.pc = "putting", !.calls = rs[p].n], oci)

\* ... it runs ...
PullsPut(p) ==
  /\ pulls[p].pc = "putting"
  /\ \/ pulls[p].calls = rs[p].n /\ PutMkdirAll(p, pulls[p].ref, pulls[p].h, TRUE)
     \/ PutOpen(p, TRUE)
     \/ PutWrite(p, TRUE, 0)

\* ... and returns; line 208: return h, nil
PullsPutReturn(p) ==
  /\ pulls[p].pc = "putting"
  /\ rs[p].n > pulls[p].calls
  /\ rs[p].pc = "idle"
  /\ PsSet(p, IF rs[p].res.err = "none" THEN ReturnHash(pulls[p], pulls[p].h)
              ELSE ReturnErr(pulls[p]),
           oci)

\* a new store directory, a policy under which a pull reaches the registry,
\* and a registry that serves one image for the reference
PullsInit ==
  /\ layers = <<>>
  /\ out = <<>>
  /\ upc = "build"
  /\ Unmounted
  /\ pullPolicy \in {PullIfNotPresent, PullAlways}
  /\ registry \in [{OneRef} -> Digests]
  /\ refStore = <<>>
  /\ oci = {}
  /\ layerFiles = {}
  /\ pull = NoPull
  /\ NoUnpacks

\* every system call succeeds when the state of the store lets it
PullsNext ==
  \E p \in Procs :
    \/ PullsBegin(p, OneRef)
    \/ PullsHead(p)
    \/ PullsFetch(p)
    \/ PullsAppend(p)
    \/ PullsCallUnpack(p)
    \/ PullsUnpack(p)
    \/ PullsUnpackReturn(p)
    \/ PullsCallPut(p)
    \/ PullsPut(p)
    \/ PullsPutReturn(p)
SpecPulls == PullsInit /\ [][PullsNext]_vars

\* ------------------------------------------------------------------------
\* Mkdir, Create and Unlink of the root directory on several worker threads
\* ------------------------------------------------------------------------
MaxSetup == 1  \* operations made one after the other before the threads start

\* what the calls share: WritableLayer.files, the content tree, the handles
\* and the nodes
Shared == [wl |-> wlFiles, c |-> content, hs |-> handles, ns |-> nodes, dn |-> dirNodes]
Returns(f, errno) == [f EXCEPT !.pc = "done", !.errno = errno]

\* Mkdir, dir.go 136-156: SetFile holds the layer's mutex from its first line
\* to its last
MkdirStep(st, f, sf) ==
  IF sf.ok THEN [st |-> [st EXCEPT !.wl = sf.wl, !.c = sf.content,
                                   !.dn = @ \cup {DirNode(f.name, FALSE)}],
                 f |-> Returns(f, "OK")]
  ELSE [st |-> st, f |-> Returns(f, "ENOTDIR")]

\* Create, dir.go 158-174: SetFile ...
CreateSetStep(st, f, sf) ==
  IF sf.ok THEN [st |-> [st EXCEPT !.wl = sf.wl, !.c = sf.content],
                 f |-> [f EXCEPT !.pc = "create.open", !.file = sf.file]]
  ELSE [st |-> st, f |-> Returns(f, "ENOTDIR")]

\* ... dir.go 176-185: os.OpenFile(file.Path, flags) with O_CREAT and no
\* O_TRUNC, then the node and the handle
CreateOpenStep(st, f, rel, slot) ==
  IF IsDirAt(st.c, rel) THEN [st |-> st, f |-> Returns(f, "EISDIR")]
  ELSE [st |-> [st EXCEPT !.c = Put(st.c, rel, FileEnt(IF IsFileAt(st.c, rel)
                                                        THEN st.c[rel].data ELSE <<>>)),
                          !.ns = Append(@, FileNode(f.name, TRUE, FALSE, f.file)),
                          !.hs[slot] = Handle(Len(st.ns) + 1, "content", rel, "rw")],
        f |-> Returns(f, "OK")]

\* Unlink, dir.go 188-208: GetFile(childPath) under the read lock, then the
\* look into roLookup
UnlinkGetStep(st, f) ==
  [st |-> st,
   f |-> IF f.name \in DOMAIN st.wl THEN [f EXCEPT !.pc = "unlink.delete"]
         ELSE IF f.name \in DOMAIN roLookup THEN [f EXCEPT !.pc = "unlink.set"]
         ELSE Returns(f, "ENOENT")]

\* ... dir.go 200-204: DeleteFile under the write lock; a path that has no
\* entry is nothing to delete and no error
UnlinkDeleteStep(st, f, rel) ==
  IF f.name \notin DOMAIN st.wl THEN [st |-> st, f |-> Returns(f, "OK")]
  ELSE IF ~RemoveOK(st.c, rel) THEN [st |-> st, f |-> Returns(f, "ENOTEMPTY")]
  ELSE [st |-> [st EXCEPT !.wl = Drop(@, f.name), !.c = Drop(@, rel),
                          !.hs = Orphan(@, st.c, rel)],
        f |-> Returns(f, "OK")]

\* ... dir.go 209-216: SetFile of the tombstone ...
UnlinkSetStep(st, f, sf) ==
  IF sf.ok THEN [st |-> [st EXCEPT !.wl = sf.wl, !.c = sf.content],
                 f |-> [f EXCEPT !.pc = "unlink.touch", !.file = sf.file]]
  ELSE [st |-> st, f |-> Returns(f, "ENOTDIR")]

\* ... dir.go 217-227: os.Create of its content path
UnlinkTouchStep(st, f, rel) ==
  IF IsDirAt(st.c, rel) THEN [st |-> st, f |-> Returns(f, "EISDIR")]
  ELSE [st |-> [st EXCEPT !.c = Put(@, rel, FileEnt(<<>>))], f |-> Returns(f, "OK")]

\* one step of a call: from one use of what the calls share to the next
DirStep(st, f) ==
  CASE f.pc = "mkdir.set" ->
         MkdirStep(st, f, SetFile(st.wl, st.c, File(f.name, TypeDir, "dir", 0, NoPath)))
    [] f.pc = "create.set" ->
         CreateSetStep(st, f, SetFile(st.wl, st.c, File(f.name, TypeReg, "reg", 0, NoPath)))
    [] f.pc = "create.open" ->
         CreateOpenStep(st, f, RelOf(f.file.Path),
                        CHOOSE h \in DOMAIN st.hs :
                          \/ st.hs[h].kind = "free"
                          \/ \A g \in DOMAIN st.hs : st.hs[g].kind # "free")
    [] f.pc = "unlink.get" -> UnlinkGetStep(st, f)
    [] f.pc = "unlink.delete" ->
         UnlinkDeleteStep(st, f, IF f.name \in DOMAIN st.wl
                                   THEN ContentRel(st.wl[f.name].Name) ELSE <<>>)
    [] f.pc = "unlink.set" ->
         UnlinkSetStep(st, f, SetFile(st.wl, st.c,
                                      File(whiteoutPrefix \o f.name, TypeZero, "none", 0, NoPath)))
    [] f.pc = "unlink.touch" -> UnlinkTouchStep(st, f, RelOf(f.file.Path))

\* a call that runs from its first step to its return with no other call
\* in between
RECURSIVE RunAlone(_, _)
RunAlone(st, f) ==
  IF f.pc = "done" THEN [st |-> st, f |-> f]
  ELSE RunAlone(DirStep(st, f).st, DirStep(st, f).f)

DirOpNames == {"mkdir", "create", "unlink"}
Entered(op, name, pre) ==
  [NoDirOp EXCEPT !.pc = CASE op = "mkdir" -> "mkdir.set"
                          [] op = "create" -> "create.set"
                          [] op = "unlink" -> "unlink.get",
                  !.op = op, !.name = name, !.pre = pre]

DirFrame ==
  UNCHANGED <<pullPolicy, refStore, registry, oci, layerFiles, pull, blobDir, up, refsDir, rs,
              bound, pulls, mountsDir, mnt, mvars, layers, out, upc, roLookup, roDirs,
              extraDirs, hasWL,
              blobs, steps, last>>
DirSet(st, ops) ==
  /\ wlFiles' = st.wl
  /\ content' = st.c
  /\ handles' = st.hs
  /\ nodes' = st.ns
  /\ dirNodes' = st.dn
  /\ dirOps' = ops
  /\ DirFrame

\* the calls that run: a Create among them will need a node and a handle
Running == {t \in Threads : dirOps[t].pc \notin {"idle", "done"}}
Creating == {t \in Running : dirOps[t].op = "create"}
NoneEntered == \A t \in Threads : dirOps[t].pc = "idle"

\* the kernel hands a request to a worker thread
DirEnter(t, op, name) ==
  /\ dirOps[t].pc = "idle"
  /\ op = "create" => /\ Len(nodes) + Cardinality(Creating) < MaxNodes
                      /\ Cardinality(FreeSlots) > Cardinality(Creating)
  /\ DirSet(Shared,
            [u \in Threads |->
               IF u = t THEN Entered(op, name, IF NoneEntered THEN Shared ELSE dirOps[u].pre)
               ELSE IF NoneEntered THEN [dirOps[u] EXCEPT !.pre = Shared]
               ELSE dirOps[u]])

\* a thread makes the next step of its call
DirAdvanceTo(t, r) == DirSet(r.st, [dirOps EXCEPT ![t] = r.f])
DirAdvance(t) ==
  /\ t \in Running
  /\ DirAdvanceTo(t, DirStep(Shared, dirOps[t]))

\* operations made one after the other before two requests meet
DirSetup ==
  /\ NoneEntered
  /\ steps < MaxSetup
  /\ \/ \E name \in MkdirNames : Mkdir(RootDir, name)
     \/ \E name \in CreateNames, fl \in CreateFlags : Create(RootDir, name, fl)
     \/ \E name \in OpNames : Unlink(RootDir, name)

\* a mount with a writable layer
DirInit ==
  \E m \in Mounts :
    /\ layers = m.img
    /\ out = Unify(m.img)
    /\ upc = "done"
    /\ InitMount(UnifyFilesOut(m.img), m.dirs, TRUE)

DirNext ==
  \/ DirSetup
  \/ \E t \in Threads, op \in DirOpNames, name \in OpNames : DirEnter(t, op, name)
  \/ \E t \in Threads : DirAdvance(t)
SpecDirOps == DirInit /\ [][DirNext]_vars

\* ------------------------------------------------------------------------
\* Store.pullImage of one process, with the calls that fail and a context
\* that is cancelled
\* ------------------------------------------------------------------------
\* the caller cancels the context of the pull that runs
Cancel(p) ==
  /\ pulls[p].pc # "idle"
  /\ pulls[p].ctx = "live"
  /\ PsSet(p, [pulls[p] EXCEPT !.ctx = "done"], oci)

\* extractTar, lines 252-258: the select at the head of the loop finds
\* ctx.Done() closed and returns ctx.Err()
ExtractDoneNoError(p) ==
  /\ up[p].pc = "next"
  /\ pulls[p].ctx = "done"
  /\ UpSet(p, [up[p] EXCEPT !.pc = "defer", !.cause = "ctx"], blobDir, {})
ExtractDone(p) ==
  /\ up[p].pc = "next"
  /\ pulls[p].ctx = "done"
  /\ UpSet(p, [Fail(up[p]) EXCEPT !.cause = "ctx"], blobDir, {})

\* remote.Head, remote.Image or AppendImage returns an error
PullsRemoteFails(p) ==
  /\ pulls[p].pc \in {"head", "fetch", "append"}
  /\ PsSet(p, ReturnErr(pulls[p]), oci)

\* unpackLayer as pullImage calls it: every call it makes can fail, and a
\* context that is done ends extractTar at the head of its loop
PullsUnpackAny(p) ==
  /\ pulls[p].pc = "unpacking"
  /\ \/ pulls[p].calls = up[p].n /\ \E ok \in BOOLEAN : UnpackBegin(p, Head(pulls[p].todo), ok)
     \/ ExtractDone(p)
     \/ pulls[p].ctx = "live" /\ \E ok \in BOOLEAN : ExtractNext(p, ok)
     \/ \E ok \in BOOLEAN : ExtractTemp(p, ok)
     \/ \E ok \in BOOLEAN : ExtractCopy(p, ok)
     \/ \E ok \in BOOLEAN : ExtractStat(p, ok)
     \/ \E ok \in BOOLEAN : ExtractRename(p, ok)
     \/ ExtractReturn(p)
     \/ \E ok \in BOOLEAN : PersistOpen(p, ok)
     \/ \E ok \in BOOLEAN : PersistWrite(p, ok)

\* referenceStore.Put as pullImage calls it: every call it makes can fail
PullsPutAny(p) ==
  /\ pulls[p].pc = "putting"
  /\ \/ /\ pulls[p].calls = rs[p].n
        /\ \E ok \in BOOLEAN : PutMkdirAll(p, pulls[p].ref, pulls[p].h, ok)
     \/ \E ok \in BOOLEAN : PutOpen(p, ok)
     \/ \E ok \in BOOLEAN, n \in {0, 1} : PutWrite(p, ok, n)

\* one caller after the other: pulls of one reference, the image behind the
\* reference replaced in the registry between them
PullSeqNext ==
  \/ PullsBegin(1, OneRef)
  \/ PullsHead(1)
  \/ PullsFetch(1)
  \/ PullsAppend(1)
  \/ PullsRemoteFails(1)
  \/ PullsCallUnpack(1)
  \/ PullsUnpackAny(1)
  \/ PullsUnpackReturn(1)
  \/ PullsCallPut(1)
  \/ PullsPutAny(1)
  \/ PullsPutReturn(1)
  \/ Cancel(1)
  \/ \E d \in Digests : pulls[1].pc = "idle" /\ RegistryPush(OneRef, d)
SpecPullSeq == PullsInit /\ [][PullSeqNext]_vars

\* ------------------------------------------------------------------------
\* OCIFS.Mount with an id and no mount point
\* ------------------------------------------------------------------------
MaxMounts == 3  \* Mount calls per run
MountIds == {"m1", "m2"}

MountSet(f, dirs) ==
  /\ mnt' = f
  /\ mountsDir' = dirs
  /\ UNCHANGED <<pullPolicy, refStore, registry, oci, layerFiles, pull, layers, out, upc,
                 fsvarsNoStore, blobDir, up, refsDir, rs, bound, pulls, dirOps>>
MountFails(f, in) == [f EXCEPT !.pc = "idle", !.res = "error", !.failed = in]

\* Mount, ocifs.go 129-143, and Store.NewMountDir: os.Mkdir of mounts/<id>
NewMountDir(f, ok) ==
  IF f.id \in mountsDir THEN MountSet(MountFails(f, "exists"), mountsDir)
  ELSE IF ~ok THEN MountSet(MountFails(f, "mkdir"), mountsDir)
  ELSE MountSet([f EXCEPT !.pc = "image"], mountsDir \cup {f.id})
MountBegin(id, ok) ==
  /\ mnt.pc = "idle"
  /\ mnt.n < MaxMounts
  /\ pulls[1].n < MaxPullsEach
  /\ NewMountDir([NoMount EXCEPT !.id = id, !.n = mnt.n + 1, !.calls = pulls[1].n,
                                 !.served = mnt.served], ok)

\* ocifs.go 154 and Store.Image, store.go 82-86: s.pullImage runs
MountPull ==
  /\ mnt.pc = "image"
  /\ \/ pulls[1].n = mnt.calls /\ PullsBegin(1, OneRef)
     \/ PullsHead(1)
     \/ PullsFetch(1)
     \/ PullsAppend(1)
     \/ PullsRemoteFails(1)
     \/ PullsCallUnpack(1)
     \/ PullsUnpackAny(1)
     \/ PullsUnpackReturn(1)
     \/ PullsCallPut(1)
     \/ PullsPutAny(1)
     \/ PullsPutReturn(1)

\* Store.getImage, store.go 93-135: the image is read from the OCI layout
\* and Layer.Load reads the file list of every layer
getImage(h) ==
  /\ h \in oci
  /\ \A i \in 1..Len(ImageLayers[h]) :
       /\ blobPath(ImageLayers[h][i]) \in DOMAIN blobDir
       /\ blobDir[blobPath(ImageLayers[h][i])].data.whole

\* ocifs.go 154-158 and store.go 84-90: the error of pullImage or of
\* getImage is returned as it is
MountImageOf(f, p) ==
  IF p.res # "ok" THEN MountSet(MountFails(f, "pull"), mountsDir)
  ELSE IF ~getImage(p.ret) THEN MountSet(MountFails(f, "assemble"), mountsDir)
  ELSE MountSet([f EXCEPT !.pc = "serve"], mountsDir)
MountImage ==
  /\ mnt.pc = "image"
  /\ pulls[1].pc = "idle"
  /\ pulls[1].n > mnt.calls
  /\ MountImageOf(mnt, pulls[1])

\* ocifs.go 160-185: unionfs.Init and fs.Mount on the mount point
MountServe(ok) ==
  /\ mnt.pc = "serve"
  /\ MountSet(IF ok THEN [mnt EXCEPT !.pc = "idle", !.res = "ok", !.served = @ \cup {mnt.id}]
              ELSE MountFails(mnt, "serve"),
              mountsDir)

\* ImageMount.Unmount, ocifs.go 89-91: the server is unmounted
MountUnmount(id) ==
  /\ mnt.pc = "idle"
  /\ id \in mnt.served
  /\ MountSet([mnt EXCEPT !.served = @ \ {id}], mountsDir)

MountNext ==
  \/ \E id \in MountIds, ok \in BOOLEAN : MountBegin(id, ok)
  \/ MountPull
  \/ MountImage
  \/ \E ok \in BOOLEAN : MountServe(ok)
  \/ \E id \in MountIds : MountUnmount(id)
SpecMountId == PullsInit /\ [][MountNext]_vars

\* ------------------------------------------------------------------------
\* Claims about lookup, readdir, copy-up and the blobs
\* ------------------------------------------------------------------------

\* the precedence of the lookup contract, with the extra directories of the
\* mount
C7_Expected(childPath, whiteoutPath) ==
  IF hasWL /\ childPath \in DOMAIN wlFiles THEN newInodeFromFile(wlFiles[childPath], TRUE)
  ELSE IF hasWL /\ whiteoutPath \in DOMAIN wlFiles THEN NoEnt
  ELSE IF childPath \in DOMAIN roLookup THEN newInodeFromFile(roLookup[childPath], FALSE)
  ELSE IF childPath \in roDirs THEN newDirInode(childPath)
  ELSE IF childPath \in extraDirs THEN newDirInode(childPath)
  ELSE NoEnt
C7_Agrees(r, e) == r.errno = e.errno /\ r.kind = e.kind /\ r.writable = e.writable

\* C7: lookup(name) on a directory returns the writable-layer entry for
\* <dir>/<name> as writable; else ENOENT when the writable layer holds the
\* tombstone <dir>/.wh.<name>; else the read-only file entry; else an
\* implicit read-only directory; else an extra directory; else ENOENT.
C7_LookupPrecedence ==
  \A d \in dirNodes : \A name \in OpNames :
    C7_Agrees(LookupRes(d, name),
              C7_Expected(Join(d.path, name), Join(d.path, whiteoutPrefix \o name)))

C8_SameType(mode, r) ==
  /\ r.errno = "OK"
  /\ mode = "dir" => r.kind = "dir"
  /\ mode = "reg" => r.kind = "file"

\* C8: every name that readdir of a directory can emit ("." aside, which the
\* kernel resolves itself) resolves through lookup on that directory, and to
\* a node of the type that readdir reported when it reported one.
C8_ReaddirAgreesWithLookup ==
  \A d \in dirNodes : \A entries \in ReaddirResults(d) :
    \A name \in (DOMAIN entries) \ {<<".">>} : C8_SameType(entries[name], LookupRes(d, name))

\* the blob that the image holds for path P
C9_OrigBlob(P) == InitRoLookup(UnifyFilesOut(layers))[P].Path
C9_CopiedUp(P, rel) ==
  /\ P \in DOMAIN wlFiles
  /\ IsFileAt(content, rel)
  /\ content[rel].data = WriteAt(Blobs0[C9_OrigBlob(P)], last.data, last.off)
  /\ ReadAt(FdBytes(handles[last.h], content, blobs), last.off, Len(last.data)) = last.data

\* C9: after a write that succeeded on a path P which the read-only view
\* serves and for which the writable layer had no entry (the first write to
\* P), and while the handle it went through is open, the writable layer has
\* an entry for P, the content file content/<P> holds the bytes of P's blob
\* overlaid by the written data, and a read through the handle returns the
\* written data.
C9_FirstWriteCopiesUp ==
  (/\ last.op = "write" /\ last.errno = "OK" /\ last.first
   /\ last.h \in OpenSlots /\ handles[last.h].node = last.node)
    => C9_CopiedUp(nodes[last.node].path, ContentRel(nodes[last.node].path))

\* C10: no operation changes the bytes of a blob.
C10_BlobsUntouched == blobs = Blobs0

\* C11: once a write through an open handle has returned with success, the
\* handle's descriptor refers to the writable copy under content/, not to a
\* blob; so after two handles on one read-only path have both written,
\* neither refers to the blob.
C11_HandlesOnWritableCopy ==
  (/\ last.op = "write" /\ last.errno = "OK"
   /\ last.h \in OpenSlots /\ handles[last.h].node = last.node)
    => handles[last.h].kind # "blob"

\* C12: a write copies the read-only bytes up only when the writable layer
\* has no entry for the path yet: when an entry exists at the moment of the
\* write, nothing is copied over the content it refers to.
C12_CopyUpAtMostOnce ==
  (last.op = "write" /\ last.copyup) => last.first

\* C13: on a mount without a writable layer every mkdir, create, unlink and
\* write returns EROFS and leaves the maps, the directory trees, the blobs,
\* the nodes and the handles as they were, so that lookup, readdir and read
\* return afterwards what they returned before.
C13_ReadOnlyMountRefusesMutation ==
  [][(~hasWL /\ steps' = steps + 1) =>
       /\ last'.op \in {"mkdir", "create", "unlink", "write"}
       /\ last'.errno = "EROFS"
       /\ UNCHANGED <<roLookup, roDirs, extraDirs, hasWL, wlFiles, content, blobs,
                      dirNodes, nodes, handles>>]_vars

\* a write through an open handle was refused on a read-only mount
C13_Witness ==
  ~hasWL /\ last.op = "write" /\ last.errno = "EROFS" /\ last.h \in OpenSlots

\* what C14 says of unlink(name) on directory d, where p is <dir>/<name> and
\* w is <dir>/.wh.<name>
C14_Outcome(d, name, p, w) ==
  IF p \in DOMAIN wlFiles
    THEN /\ last'.errno = "OK"
         /\ wlFiles' = Drop(wlFiles, p)
  ELSE IF p \in DOMAIN roLookup
    THEN /\ last'.errno = "OK"
         /\ w \in DOMAIN wlFiles'
         /\ LookupRes(d, name)'.errno = "ENOENT"
         /\ \A entries \in ReaddirResults(d)' : name \notin DOMAIN entries
  ELSE /\ last'.errno = "ENOENT"
       /\ wlFiles' = wlFiles

C15_OneNodePerPath ==
  \A i \in 1..Len(nodes) : \A j \in 1..Len(nodes) :
    nodes[i].path = nodes[j].path => i = j

\* C16: once Unmount has returned with success on a mount that has a
\* writable layer, metadata.json exists and deserialises to the writable
\* layer's map as it stands.
C16_MetadataPersistedAtUnmount ==
  (hasWL /\ srv \in {"unmounted", "waited"}) =>
    (metadata.exists /\ Unmarshal(metadata.data) = wlFiles)

\* ------------------------------------------------------------------------
\* Claims about Store.pullImage (checked under SpecPull)
\* ------------------------------------------------------------------------
\* the Reference Store binds ref to a digest: a pull of ref has succeeded
C17_Cached(ref) == ref \in DOMAIN refStore /\ refStore[ref] \in Digests

\* C17: with policy if-not-present, a resolve of a reference that a pull has
\* bound returns the cached digest at once: no Head and no Image request, no
\* layer unpacked, nothing written to the Reference Store, the OCI layout,
\* the layer files or the blobs.
C17_IfNotPresentUsesCache ==
  [][\A ref \in Refs :
       (/\ pullPolicy = PullIfNotPresent /\ C17_Cached(ref)
        /\ pull.pc = "idle" /\ pull'.n = pull.n + 1 /\ pull'.ref = ref)
         => /\ pull'.pc = "idle" /\ pull'.res = "ok" /\ pull'.ret = refStore[ref]
            /\ pull'.heads = 0 /\ pull'.fetches = 0 /\ pull'.unpacked = {}
            /\ ~pull'.wrote
            /\ UNCHANGED <<refStore, oci, layerFiles, blobs>>]_vars

\* a later resolve returned the cached digest without a registry request
C17_Witness ==
  /\ pullPolicy = PullIfNotPresent /\ pull.n >= 2
  /\ pull.pc = "idle" /\ pull.res = "ok" /\ pull.fetches = 0
  /\ pull.ret = refStore[pull.ref]

\* C18: with pull policy never, no call of pullImage sends a Head or an
\* Image request or writes to the store: a call that has returned gave an
\* error when the reference was not cached and the cached digest when it
\* was.
C18_NeverMakesNoRequest ==
  pullPolicy = PullNever =>
    /\ pull.heads = 0 /\ pull.fetches = 0 /\ ~pull.wrote
    /\ (pull.pc = "idle" /\ pull.res = "ok") => (C17_Cached(pull.ref) /\ pull.ret = refStore[pull.ref])

\* what C19 says of the step that follows the Head request of a call with
\* policy always on a cached reference
C19_AfterHead ==
  /\ pull'.heads = pull.heads + 1
  /\ pull'.res = "ok" =>
       /\ registry[pull.ref] = pull.h
       /\ pull'.ret = refStore[pull.ref]
       /\ pull'.fetches = 0 /\ pull'.unpacked = {} /\ ~pull'.wrote
       /\ UNCHANGED <<refStore, oci, layerFiles>>
  /\ (pull'.pc # "idle") =>
       (registry[pull.ref] # pull.h /\ pull'.pc = "fetch")
  /\ (pull.ref \in DOMAIN registry /\ registry[pull.ref] = pull.h) => pull'.pc = "idle"

\* C19: with policy always and a cached reference, resolve sends a Head
\* request; when the digest of the answer is the cached one it returns the
\* cached digest and fetches, unpacks and writes nothing, when it is another
\* one it goes on to fetch the image; and a call that fetched and returned
\* a digest has unpacked every layer of that image and left the reference
\* bound to it.
C19_AlwaysRevalidates ==
  [][pullPolicy = PullAlways =>
       /\ \A ref \in Refs :
            (C17_Cached(ref) /\ pull.pc = "idle" /\ pull'.n = pull.n + 1 /\ pull'.ref = ref)
              => (pull'.pc = "head" /\ pull'.h = refStore[ref] /\ pull'.heads = 0
                  /\ pull'.fetches = 0)
       /\ (pull.pc = "head" /\ pull'.res # "crashed" /\ pull' # pull) => C19_AfterHead
       /\ (pull.pc # "idle" /\ pull'.pc = "idle" /\ pull'.res = "ok" /\ pull'.fetches > 0)
            => /\ pull'.fetches = 1
               /\ pull'.ret = pull'.img
               /\ pull'.unpacked = SeqSet(ImageLayers[pull'.img])
               /\ SeqSet(ImageLayers[pull'.img]) \subseteq layerFiles'
               /\ pull'.img \in oci'
               /\ refStore'[pull'.ref] = pull'.img]_vars

\* a call with policy always found another digest on the registry, pulled
\* the image and rebound the reference
C19_Witness ==
  /\ pullPolicy = PullAlways /\ pull.pc = "idle" /\ pull.res = "ok"
  /\ pull.heads = 1 /\ pull.fetches = 1 /\ pull.unpacked = {"l1", "l2"}
  /\ refStore[pull.ref] = pull.ret

\* C20: the Reference Store changes only in the step that follows the
\* unpacking of the last layer, when every layer of the image has its files
\* persisted; so a pull that ends with an error, a cancellation or a crash
\* before that step leaves the binding of the reference as it was.
C20_PutAfterAllLayers ==
  [][/\ refStore' # refStore =>
          /\ pull.pc = "unpack" /\ pull.todo = <<>>
          /\ pull.h \in oci
          /\ pull.unpacked = SeqSet(ImageLayers[pull.h])
          /\ SeqSet(ImageLayers[pull.h]) \subseteq layerFiles
          /\ \A r \in DOMAIN refStore : r # pull.ref => (r \in DOMAIN refStore' /\ refStore'[r] = refStore[r])
     /\ (/\ pull.pc # "idle" /\ pull'.pc = "idle" /\ pull'.res # "ok"
         /\ ~(pull.pc = "unpack" /\ pull.todo = <<>>))
          => refStore' = refStore]_vars

\* a pull died after it had unpacked a layer, and the reference is not bound
C20_Witness ==
  /\ pull.pc = "idle" /\ pull.res \in {"error", "crashed"}
  /\ pull.unpacked # {}
  /\ pull.ref \notin DOMAIN refStore

\* ------------------------------------------------------------------------
\* Claims about Store.unpackLayer (checked under SpecUnpackSeq and SpecUnpack)
\* ------------------------------------------------------------------------
\* the layer's file list is in dir, whole: an unpack of the layer succeeded
LayerUnpacked(dir, layer) ==
  blobPath(layer) \in DOMAIN dir /\ dir[blobPath(layer)].data.whole

\* C21: when a layer that has been unpacked is unpacked again and the call
\* succeeds, the blob directory is what it was before the call: no file
\* more (no blob, no temp file), every blob the same file with the same
\* bytes, and the layer's file list with the same content.
C21_SecondUnpackIdempotent ==
  \A p \in Procs :
    (up[p].pc = "idle" /\ up[p].res = "ok" /\ LayerUnpacked(up[p].pre, up[p].layer))
      => blobDir = up[p].pre

\* a layer was unpacked a second time, and both calls wrote a temp file
C21_Witness ==
  /\ up[1].pc = "idle" /\ up[1].res = "ok" /\ up[1].n = 2 /\ up[1].made = 2
  /\ LayerUnpacked(up[1].pre, up[1].layer)

\* C22: when an unpackLayer call on a layer that had no file list returns
\* an error, whatever the step that failed, the layer has no file list
\* afterwards; so a layer whose file list exists has been unpacked to the
\* end.
C22_NoMetadataAfterFailure ==
  \A p \in Procs :
    (/\ up[p].pc = "idle" /\ up[p].res = "error"
     /\ blobPath(up[p].layer) \notin DOMAIN up[p].pre)
      => blobPath(up[p].layer) \notin DOMAIN blobDir

\* the n-th entry of a layer's file list is good: a regular entry has the
\* path blobs/<hex> of a blob that exists, whose bytes hash to <hex> and
\* are the bytes of the n-th record of the layer's tar stream
C23_EntryResolves(e, rec) ==
  e.Typeflag = TypeReg =>
    /\ e.Name = rec.Name
    /\ e.Path \in DOMAIN blobDir
    /\ e.Path = blobPath(Sha256(blobDir[e.Path].data))
    /\ blobDir[e.Path].data = rec.data

\* C23: in every layer file list that is persisted (the file holds the whole
\* JSON text), every entry of type regular has a blob path blobs/<hex> at
\* which a blob exists whose bytes hash to <hex> and are the entry's bytes
\* in the tar stream; in every state that repeated and overlapping unpacks
\* of two processes reach.
C23_RegularEntriesResolve ==
  \A layer \in UnpackLayers :
    LayerUnpacked(blobDir, layer) =>
      /\ Len(blobDir[blobPath(layer)].data.text) = Len(LayerTar[layer])
      /\ \A n \in 1..Len(LayerTar[layer]) :
           C23_EntryResolves(blobDir[blobPath(layer)].data.text[n], LayerTar[layer][n])

\* two calls on the same layer overlapped (neither found the layer's file
\* list when it began) and both succeeded
C23_Witness ==
  /\ up[1].pc = "idle" /\ up[1].res = "ok" /\ up[2].pc = "idle" /\ up[2].res = "ok"
  /\ up[1].layer = "l2" /\ up[2].layer = "l2"
  /\ up[1].n = 1 /\ up[2].n = 1
  /\ ~LayerUnpacked(up[1].pre, "l2")
  /\ ~LayerUnpacked(up[2].pre, "l2")
  /\ LayerUnpacked(blobDir, "l2")

\* ------------------------------------------------------------------------
\* Claims about the Reference Store (checked under SpecRefSeq and SpecRef)
\* ------------------------------------------------------------------------
\* what a Get of ref returns by the contract: not present and no error
\* before any Put of ref has returned nil, and after that present with the
\* hash of the last such Put
C24_Expected(ref) ==
  IF ref \in DOMAIN bound THEN [h |-> bound[ref], found |-> TRUE, err |-> "none"]
  ELSE [h |-> emptyHash, found |-> FALSE, err |-> "none"]

\* C24: between calls, for every reference, Get reports not present with no
\* error when no Put of the reference has succeeded, and present with
\* exactly the hash of the last Put of the reference that succeeded.
C24_GetReturnsLastPut ==
  rs[1].pc = "idle" => \A ref \in RefNames : StoreGet(ref) = C24_Expected(ref)

\* C25: Put is atomic: no Get, whether it runs while a Put of another caller
\* is under way or after a Put that failed or was cut off by a crash, finds
\* text in the reference's file that NewHash rejects; it finds no file, the
\* hash bound before, or the whole new hash.
C25_PutIsAtomic ==
  \A p \in Procs : rs[p].op = "get" => rs[p].res.err # "invalid"

\* C26: two pulls of one reference that run concurrently on one store
\* directory both succeed, and once both have returned the store holds what a
\* single pull leaves: the blobs of the image's layers with their content,
\* the file list of every layer, the image in the OCI layout and the
\* reference bound to the image's digest.
C26_Returned(p) == pulls[p].pc = "idle" /\ pulls[p].n > 0
C26_Regular(d) ==
  UNION {{LayerTar[ImageLayers[d][i]][k] : k \in 1..Len(LayerTar[ImageLayers[d][i]])} :
           i \in 1..Len(ImageLayers[d])}
    \cap {r \in UNION {{LayerTar[l][k] : k \in 1..Len(LayerTar[l])} : l \in UnpackLayers} :
            r.Typeflag = TypeReg}
C26_Files(layer) ==
  [k \in 1..Len(LayerTar[layer]) |->
     File(LayerTar[layer][k].Name, LayerTar[layer][k].Typeflag, "none",
          Len(LayerTar[layer][k].data),
          IF LayerTar[layer][k].Typeflag = TypeReg
            THEN blobPath(Sha256(LayerTar[layer][k].data)) ELSE NoPath)]
C26_SinglePull(d) ==
  /\ DOMAIN blobDir =
       {blobPath(ImageLayers[d][i]) : i \in 1..Len(ImageLayers[d])} \cup
       {blobPath(Sha256(rec.data)) : rec \in C26_Regular(d)}
  /\ \A i \in 1..Len(ImageLayers[d]) :
       blobDir[blobPath(ImageLayers[d][i])].data = MarshalLayer(C26_Files(ImageLayers[d][i]))
  /\ \A rec \in C26_Regular(d) : blobDir[blobPath(Sha256(rec.data))].data = rec.data
  /\ oci = {d}
  /\ StoreGet(OneRef) = [h |-> d, found |-> TRUE, err |-> "none"]
C26_ConcurrentPullsConverge ==
  /\ \A p \in Procs :
       C26_Returned(p) => pulls[p].res = "ok" /\ pulls[p].ret = registry[OneRef]
  /\ (\A p \in Procs : C26_Returned(p) /\ rs[p].pc = "idle" /\ up[p].pc = "idle")
       => C26_SinglePull(registry[OneRef])

\* C27: on a mount whose writable layer holds no entry made by the user
\* (only the root entry the mount itself records), every lookup, every
\* readdir, the root's included, and every read return what they return on
\* the same image mounted with no writable layer.
C27_NoUserEntries == hasWL /\ DOMAIN wlFiles \subseteq {<<>>}
C27_LookupNoLayer(d, childPath) ==
  IF childPath \in DOMAIN roLookup THEN newInodeFromFile(roLookup[childPath], FALSE)
  ELSE IF childPath \in roDirs THEN newDirInode(childPath)
  ELSE IF childPath \in NodeExtraDirs(d) THEN newDirInode(childPath)
  ELSE NoEnt
C27_ReadNoLayer(fd) ==
  IF fd.acc \in {"r", "rw"} THEN [errno |-> "OK", data |-> ReadAt(blobs[fd.at], 0, MaxRead)]
  ELSE [errno |-> "EIO", data |-> <<>>]
C27_EmptyLayerReadsAsNoLayer ==
  C27_NoUserEntries =>
    \A d \in dirNodes :
      /\ \A name \in OpNames : LookupRes(d, name) = C27_LookupNoLayer(d, Join(d.path, name))
      /\ ReaddirResults(d) = {ReaddirBase(d)}
      /\ \A h \in OpenSlots :
           handles[h].kind = "blob" => ReadRes(h) = C27_ReadNoLayer(handles[h])

\* C29: on a mount with a writable layer, once unlink(name) has returned
\* success, lookup(name) on the same directory returns ENOENT as long as the
\* name is not created again, whether the name was in the read-only view
\* only, in the writable layer only, or in both.
C29_UnlinkedIsGone ==
  (hasWL /\ last.op = "unlink" /\ last.errno = "OK")
    => LookupRes(last.dir, last.name).errno = "ENOENT"

\* C30: on a mount with a writable layer, after mkdir(name) has returned
\* success lookup(name) on the same directory returns a directory node, and
\* after create(name) has returned success it returns a file node whose
\* content is the writable layer's content file; both also for a name of the
\* read-only view and for a name with a tombstone recorded earlier.
C30_Made(r, op, childPath) ==
  /\ r.errno = "OK"
  /\ op = "mkdir" => r.kind = "dir" /\ r.file.Name = childPath
  /\ op = "create" =>
       /\ r.kind = "file" /\ r.writable
       /\ r.file.Path = ContentPath(ContentRel(childPath))
       /\ IsFileAt(content, RelOf(r.file.Path))
C30_LookupFindsWhatWasMade ==
  (hasWL /\ last.op \in {"mkdir", "create"} /\ last.errno = "OK")
    => C30_Made(LookupRes(last.dir, last.name), last.op, Join(last.dir.path, last.name))
C30_Witness ==
  /\ hasWL /\ last.op = "create" /\ last.errno = "OK"
  /\ Join(last.dir.path, last.name) \in DOMAIN roLookup
  /\ Join(last.dir.path, whiteoutPrefix \o last.name) \in DOMAIN wlFiles

\* C28: create, mkdir and unlink issued concurrently on one parent directory
\* are serialised: when both calls have returned, the errnos they returned
\* and the writable layer (its entries and its content tree) are those of
\* the two calls made one after the other in one of the two orders, from
\* the state in which the first of them began.
C28_InOrder(pre, first, second) ==
  LET a == RunAlone(pre, Entered(dirOps[first].op, dirOps[first].name, pre))
      b == RunAlone(a.st, Entered(dirOps[second].op, dirOps[second].name, pre))
  IN /\ a.f.errno = dirOps[first].errno
     /\ b.f.errno = dirOps[second].errno
     /\ b.st.wl = wlFiles
     /\ b.st.c = content
C28_DirectoryMutationsSerialised ==
  (\A t \in Threads : dirOps[t].pc = "done")
    => \/ C28_InOrder(dirOps[1].pre, 1, 2)
       \/ C28_InOrder(dirOps[1].pre, 2, 1)

\* C31: a tombstone of the writable layer is never exposed as an object of
\* the filesystem: no listing that readdir returns has a name that begins
\* with .wh., and lookup of a name that begins with .wh. does not return the
\* tombstone entry as a node.
C31_TombstonesStayHidden ==
  \A d \in dirNodes :
    /\ \A listing \in ReaddirResults(d) :
         \A n \in DOMAIN listing : ~HasPrefix(n, whiteoutPrefix)
    /\ \A name \in OpNames : LookupRes(d, whiteoutPrefix \o name).errno = "ENOENT"

\* C32: in every reachable state a name for which lookup on a directory
\* succeeds is in the listing readdir of that directory returns, and the
\* listing is a function of the state: the order in which the map of the
\* writable layer is iterated does not change it, also when the layer holds
\* an entry and the tombstone of the same name.
C32_ReaddirIsDetermined ==
  \A d \in dirNodes :
    /\ Cardinality(ReaddirResults(d)) = 1
    /\ \A name \in OpNames :
         LookupRes(d, name).errno = "OK"
           => \A listing \in ReaddirResults(d) : name \in DOMAIN listing

\* C33: every directory passed as an extra directory, and each directory
\* above it, is present on the mount: on the node of its parent, reached
\* from the root by one lookup per component, lookup of its last component
\* returns a directory and readdir lists that component.  Stated for the
\* mount before any mutation.
C33_ParentNode(e) == IF Dir(e) = <<".">> THEN RootDir ELSE DirNode(Dir(e), FALSE)
C33_ExtraDirsPresent ==
  \A e \in extraDirs :
    (steps = 0 /\ C33_ParentNode(e) \in dirNodes) =>
      /\ LookupRes(C33_ParentNode(e), Base(e)).kind = "dir"
      /\ \A listing \in ReaddirResults(C33_ParentNode(e)) : Base(e) \in DOMAIN listing

\* C34: whenever no pull runs and the reference store binds a reference to
\* a digest, the image of that digest is in the OCI layout and every layer
\* of it has its file list present and loadable, so that getImage succeeds
\* without a pull; after any sequence of pulls that succeeded, failed or
\* were cancelled.
C34_Assembles(d) ==
  /\ d \in oci
  /\ \A i \in 1..Len(ImageLayers[d]) : LayerUnpacked(blobDir, ImageLayers[d][i])
C34_BoundImageAssembles ==
  (pulls[1].pc = "idle" /\ StoreGet(OneRef).found) => C34_Assembles(StoreGet(OneRef).h)

\* C37: a pull whose context is done is abandoned at the next boundary
\* between tar records.  While pullImage is in the unpackLayer call that saw
\* ctx.Done(), that call does nothing but run its deferred removals and
\* return the error, and the layer's file list is what it was when the call
\* began; when pullImage leaves that call it returns the error at once: no
\* further layer is unpacked and nothing under refs/ is written.
C37_SawDone ==
  pulls[1].pc = "unpacking" /\ up[1].n > pulls[1].calls /\ up[1].cause = "ctx"
C37_LayerNotPersisted ==
  C37_SawDone =>
    /\ up[1].pc \in {"defer", "idle"}
    /\ up[1].err
    /\ up[1].pc = "idle" => up[1].res = "error"
    /\ IF blobPath(up[1].layer) \in DOMAIN up[1].pre
         THEN /\ blobPath(up[1].layer) \in DOMAIN blobDir
              /\ blobDir[blobPath(up[1].layer)] = up[1].pre[blobPath(up[1].layer)]
       ELSE blobPath(up[1].layer) \notin DOMAIN blobDir
C37_PullReturnsError ==
  (C37_SawDone /\ pulls'[1] # pulls[1]) =>
    /\ pulls'[1].pc = "idle"
    /\ pulls'[1].res = "error"
    /\ pulls'[1].ret = emptyHash
    /\ up' = up
    /\ rs' = rs
    /\ refsDir' = refsDir
C37_StopsAtBoundary ==
  (pulls[1].pc = "unpacking" /\ pulls[1].ctx = "done" /\ up[1].pc = "next" /\ up' # up)
    => up'[1].cause = "ctx" /\ up'[1].files = up[1].files /\ blobDir' = blobDir
C37_CancelledPullIsAbandoned ==
  [][C37_StopsAtBoundary /\ C37_LayerNotPersisted /\ C37_PullReturnsError]_vars
C37_Witness ==
  /\ pulls[1].pc = "idle" /\ pulls[1].res = "error" /\ pulls[1].ctx = "done"
  /\ up[1].n = pulls[1].calls + 1 /\ up[1].cause = "ctx" /\ up[1].k > 1
  /\ Len(pulls[1].todo) > 1

\* C35: a Put of one reference changes nothing for another: a reference for
\* which no Put has succeeded reads as not present with no error, and a Put
\* of it would succeed (no component of its path is a file, and its path is
\* not a directory), whatever other references are stored.
C35_PutWouldSucceed(path) ==
  /\ \A n \in 1..(Len(path) - 1) :
       SubSeq(path, 1, n) \in DOMAIN refsDir => refsDir[SubSeq(path, 1, n)].kind = "dir"
  /\ path \in DOMAIN refsDir => refsDir[path].kind = "file"
C35_OtherReferencesUntouched ==
  rs[1].pc = "idle" =>
    \A ref \in RefNames :
      ref \notin DOMAIN bound =>
        /\ StoreGet(ref) = [h |-> emptyHash, found |-> FALSE, err |-> "none"]
        /\ C35_PutWouldSucceed(pathForRef(ref))

\* C36: when Mount with an id and no mount point fails while the image is
\* pulled or assembled, no mount is established and what the failed call
\* left behind does not make a later Mount with the same id fail: the
\* directory mounts/<id>, whose presence makes NewMountDir fail, is not
\* there.
C36_FailedOnImage ==
  mnt.pc = "idle" /\ mnt.res = "error" /\ mnt.failed \in {"pull", "assemble"}
C36_FailedMountLeavesNothing ==
  C36_FailedOnImage => mnt.id \notin mnt.served /\ mnt.id \notin mountsDir

\* C38: after each successful write of n bytes the size recorded for the
\* path in the writable-layer entry, which getattr on the node reports,
\* is the size recorded before plus n; the sum starts from the read-only
\* header's size when the write copies the file up.
C38_Recorded(path) ==
  IF path \in DOMAIN wlFiles THEN wlFiles[path].Size ELSE roLookup[path].Size
C38_WriteReturned ==
  steps' = steps + 1 /\ last'.op = "write" /\ last'.errno = "OK"
C38_SizeGrowsByN ==
  /\ wlFiles'[nodes[last'.node].path].Size
       = C38_Recorded(nodes[last'.node].path) + Len(last'.data)
  /\ (IF nodes'[last'.node].alias THEN roLookup'[nodes'[last'.node].path]
      ELSE nodes'[last'.node].file).Size
       = wlFiles'[nodes[last'.node].path].Size
C38_SizeIsCumulativeSum == [][C38_WriteReturned => C38_SizeGrowsByN]_vars

====
